---------------------------- MODULE Spec2Model ----------------------------
(***************************************************************************)
(* Hunt Commander decision pipeline: the negotiation agent, the assessment *)
(* parsers of the matcher and critique agents, and the orchestrator run.   *)
(*                                                                         *)
(* Conventions.  A Python string is a sequence of tokens (lower-case       *)
(* words, labels, or single characters); "a in b" is contiguous            *)
(* containment of token sequences.  None / 0 / "" / [] are all falsy in    *)
(* Python and the code tests truthiness only, so an absent amount is 0.    *)
(* A letter with a diacritic is written with a following "*" ("kos*ice"),  *)
(* so that it differs from the plain letter as it does in the code.        *)
(* Money is held in hundredths of a euro so that the factors 1.15, 1.08,   *)
(* 1.05, the pairwise means and the midpoint are exact.                    *)
(***************************************************************************)
EXTENDS Integers, Sequences, FiniteSets, TLC

VARIABLES
    neg_op,      \* the NegotiationAgent method called: "execute", "simulate"
    neg_in,      \* its arguments
    neg_pc,      \* "call" before it has run, "return" after
    neg_out      \* its return value

negVars == <<neg_op, neg_in, neg_pc, neg_out>>

VARIABLES
    parse_op,    \* the parser called: "match" (_parse_ai_response), "critique"
    parse_in,    \* the response text: its lines, or NoText
    parse_pc,    \* "call" before it has run, "return" after
    parse_out    \* what the call produced

parseVars == <<parse_op, parse_in, parse_pc, parse_out>>

VARIABLES
    run_pc,          \* where run() is: "scrape", "match", "critique", "tailor",
                     \* "notify", "done"
    cfg,             \* credentials in the environment and agent_config
    profile,         \* the CV content and the user preferences handed to the stages
    jobs,            \* the scraped jobs, by identity
    matched_jobs,    \* run()'s lists, each built up by its stage's loop
    validated_jobs,
    jobs_with_cvs,
    notified,        \* the jobs notification.execute was called for
    fields,          \* the keys the stages have attached to each job dict
    idx,             \* position of the running loop
    calls,           \* providers called so far, per stage and job
    last             \* the latest _match_job / _critique_job call

runVars == <<run_pc, cfg, profile, jobs, matched_jobs, validated_jobs, jobs_with_cvs,
             notified, fields, idx, calls, last>>

VARIABLES
    rule_op,     \* the fallback exercised: "match" (_rule_based_match),
                 \* "twice" (inside execute, then again), "critique"
    rule_in,     \* preferences, or the critic's strict_mode
    rule_job,    \* the job dict, with the keys attached to it
    rule_pc,     \* "call", "attached" (between the two calls), "return"
    rule_out     \* what the calls returned

ruleVars == <<rule_op, rule_in, rule_job, rule_pc, rule_out>>

vars == <<negVars, parseVars, runVars, ruleVars>>

\* The component is not exercised.
NegIdle == neg_op = "none" /\ neg_in = <<>> /\ neg_pc = "idle" /\ neg_out = <<>>

ParseIdle ==
    parse_op = "none" /\ parse_in = <<>> /\ parse_pc = "idle" /\ parse_out = <<>>

RunIdle ==
    /\ run_pc = "idle" /\ cfg = <<>> /\ profile = <<>> /\ jobs = <<>> /\ matched_jobs = <<>>
    /\ validated_jobs = <<>> /\ jobs_with_cvs = <<>> /\ notified = <<>>
    /\ fields = <<>> /\ idx = 0 /\ calls = <<>> /\ last = <<>>

-----------------------------------------------------------------------------
(* Strings as token sequences *)

\* Python's "p in s" for strings.
Contains(s, p) ==
    \E i \in 0..(Len(s) - Len(p)) : SubSeq(s, i + 1, i + Len(p)) = p

\* str.lower(), token by token; the pools below use these capitalised words.
RuleIdle ==
    /\ rule_op = "none" /\ rule_in = <<>> /\ rule_job = <<>>
    /\ rule_pc = "idle" /\ rule_out = <<>>

LowerTok(t) ==
    CASE t = "Python" -> "python" [] t = "Senior" -> "senior"
      [] t = "Developer" -> "developer" [] t = "Backend" -> "backend"
      [] t = "Frontend" -> "frontend" [] t = "Bratislava" -> "bratislava"
      [] t = "Kos*ice" -> "kos*ice" [] t = "Remote" -> "remote"
      [] t = "Django" -> "django" [] t = "Docker" -> "docker"
      [] t = "REST" -> "rest"
      [] OTHER -> t

Lower(s) == [i \in 1..Len(s) |-> LowerTok(s[i])]

\* Whole euros to hundredths.
Eur(x) == x * 100

\* int(x) of a non-negative amount held in hundredths: whole euros, in hundredths.
IntEur(c) == (c \div 100) * 100

\* None, and every other falsy amount.
None == 0

-----------------------------------------------------------------------------
(* Assessment parsers (MatcherAgent._parse_ai_response,                    *)
(* CritiqueAgent._parse_critique_response)                                 *)
(*                                                                         *)
(* A response text is a sequence of lines (text.strip().split('\n'); the   *)
(* blank lines strip() drops do nothing in the loop).  A line is a         *)
(* sequence of tokens: a section label such as "SCORE:" is one token, and  *)
(* everything else is a single character or a word.  A score is an integer *)
(* count of ScoreUnit-ths, so 1.0 is ScoreUnit.                            *)

MaxScoreChars == 4

MaxLines == 3

ScoreUnit == 10 ^ MaxScoreChars

\* response.content[0].text / message.content that is None rather than a str.
NoText == [present |-> FALSE, lines |-> <<>>]

\* A response text that is a str.
Text(lines) == [present |-> TRUE, lines |-> lines]

\* str.strip(): whitespace off both ends.
Strip(s) ==
    IF \A i \in 1..Len(s) : s[i] = " "
      THEN <<>>
      ELSE SubSeq(s,
                  CHOOSE i \in 1..Len(s) :
                      s[i] # " " /\ \A j \in 1..(i - 1) : s[j] = " ",
                  CHOOSE i \in 1..Len(s) :
                      s[i] # " " /\ \A j \in (i + 1)..Len(s) : s[j] = " ")

StartsWith(s, p) == Len(s) >= Len(p) /\ SubSeq(s, 1, Len(p)) = p

\* line.replace(label, ''): every occurrence of the label goes.
Remove(s, label) == SelectSeq(s, LAMBDA t : t # label)

\* line[2:]
Drop2(s) == SubSeq(s, 3, Len(s))

UpperTok(t) ==
    CASE t = "yes" -> "YES" [] t = "Yes" -> "YES" [] t = "true" -> "TRUE"
      [] t = "approve" -> "APPROVE" [] t = "no" -> "NO"
      [] t = "approved" -> "APPROVED"
      [] OTHER -> t

Upper(s) == [i \in 1..Len(s) |-> UpperTok(s[i])]

Digits == {"0", "1", "2", "3", "4", "5", "6", "7", "8", "9"}

DigitVal(d) ==
    CASE d = "0" -> 0 [] d = "1" -> 1 [] d = "2" -> 2 [] d = "3" -> 3
      [] d = "4" -> 4 [] d = "5" -> 5 [] d = "6" -> 6 [] d = "7" -> 7
      [] d = "8" -> 8 [] d = "9" -> 9

\* First alternative of r'0?\.\d+|1\.0' tried at position i: the position of
\* the "." when it matches, 0 when it does not.
Alt1Dot(s, i) ==
    IF s[i] = "0" /\ i + 2 <= Len(s) /\ s[i + 1] = "." /\ s[i + 2] \in Digits
      THEN i + 1
    ELSE IF s[i] = "." /\ i + 1 <= Len(s) /\ s[i + 1] \in Digits
      THEN i
    ELSE 0

\* Second alternative at position i.
Alt2(s, i) == i + 2 <= Len(s) /\ SubSeq(s, i, i + 2) = <<"1", ".", "0">>

MatchesAt(s, i) == Alt1Dot(s, i) # 0 \/ Alt2(s, i)

\* re.search finds a match.
HasMatch(s) == \E i \in 1..Len(s) : MatchesAt(s, i)

\* re.search takes the leftmost one.
FirstMatch(s) ==
    CHOOSE i \in 1..Len(s) : MatchesAt(s, i) /\ \A j \in 1..(i - 1) : ~MatchesAt(s, j)

\* The greedy \d+ from position j on, as a fraction in ScoreUnit-ths.
RECURSIVE FracValue(_, _, _)
FracValue(s, j, place) ==
    IF j > Len(s) \/ s[j] \notin Digits
      THEN 0
      ELSE DigitVal(s[j]) * place + FracValue(s, j + 1, place \div 10)

\* float() of a match that takes the digit before the "." as the integer part.
FloatWithIntegerPart(s, i) ==
    IF Alt1Dot(s, i) # 0
      THEN (IF Alt1Dot(s, i) > 1 /\ s[Alt1Dot(s, i) - 1] \in Digits
              THEN DigitVal(s[Alt1Dot(s, i) - 1]) * ScoreUnit
              ELSE 0)
           + FracValue(s, Alt1Dot(s, i) + 1, ScoreUnit \div 10)
      ELSE ScoreUnit

\* float(match.group()) of the match that starts at i.
FloatAt(s, i) ==
    IF Alt1Dot(s, i) # 0
      THEN FracValue(s, Alt1Dot(s, i) + 1, ScoreUnit \div 10)
      ELSE ScoreUnit

\* match = re.search(...); if match: result['score'] = float(match.group())
ScoreLine(score_text, result) ==
    IF HasMatch(score_text)
      THEN [result EXCEPT !.score = FloatAt(score_text, FirstMatch(score_text))]
      ELSE result

\* elif line.startswith('- ') and current_section: append the item.
Bullet(line, result, section) ==
    IF StartsWith(line, <<"-", " ">>) /\ section # "none" /\ Strip(Drop2(line)) # <<>>
      THEN [result EXCEPT ![section] = Append(@, Strip(Drop2(line)))]
      ELSE result

MatchDefaults == [score |-> 0, reasons |-> <<>>, missing_skills |-> <<>>]

\* One pass of the matcher's loop body over a stripped line.
MatchLine(line, result, section) ==
    IF StartsWith(line, <<"SCORE:">>)
      THEN ScoreLine(Strip(Remove(line, "SCORE:")), result)
    ELSE IF StartsWith(line, <<"REASONS:">>) \/ StartsWith(line, <<"MISSING_SKILLS:">>)
      THEN result
    ELSE Bullet(line, result, section)

MatchSection(line, section) ==
    IF StartsWith(line, <<"SCORE:">>) THEN section
    ELSE IF StartsWith(line, <<"REASONS:">>) THEN "reasons"
    ELSE IF StartsWith(line, <<"MISSING_SKILLS:">>) THEN "missing_skills"
    ELSE section

RECURSIVE MatchLines(_, _, _, _)
MatchLines(lines, i, result, section) ==
    IF i > Len(lines)
      THEN result
      ELSE MatchLines(lines, i + 1,
                      MatchLine(Strip(lines[i]), result, section),
                      MatchSection(Strip(lines[i]), section))

\* The try block: response_text.strip() raises AttributeError on None; nothing
\* else in the block can raise.
MatchTry(response_text) ==
    IF response_text = NoText
      THEN [raised |-> TRUE, result |-> MatchDefaults]
      ELSE [raised |-> FALSE, result |-> MatchLines(response_text.lines, 1, MatchDefaults, "none")]

\* except Exception: log, then fall through to "return result".
ParseGuarded(tried) == [tried EXCEPT !.raised = FALSE]

_parse_ai_response(response_text) == ParseGuarded(MatchTry(response_text))

CritiqueDefaults ==
    [approved |-> FALSE, score |-> 0, rejection_reason |-> <<>>,
     feedback |-> <<>>, red_flags |-> <<>>, strengths |-> <<>>]

\* The loop body with an approval that, once given, is not taken back.
CritiqueLineFirstYes(line, result, section) ==
    IF StartsWith(line, <<"APPROVED:">>)
      THEN [result EXCEPT !.approved =
                @ \/ Upper(Strip(Remove(line, "APPROVED:")))
                        \in {<<"YES">>, <<"TRUE">>, <<"APPROVE">>}]
    ELSE IF StartsWith(line, <<"SCORE:">>)
      THEN ScoreLine(Strip(Remove(line, "SCORE:")), result)
    ELSE IF StartsWith(line, <<"REJECTION_REASON:">>)
      THEN [result EXCEPT !.rejection_reason = Strip(Remove(line, "REJECTION_REASON:"))]
    ELSE IF \/ StartsWith(line, <<"FEEDBACK:">>)
            \/ StartsWith(line, <<"RED_FLAGS:">>)
            \/ StartsWith(line, <<"STRENGTHS:">>)
      THEN result
    ELSE Bullet(line, result, section)

CritiqueLine(line, result, section) ==
    IF StartsWith(line, <<"APPROVED:">>)
      THEN [result EXCEPT !.approved =
                Upper(Strip(Remove(line, "APPROVED:")))
                    \in {<<"YES">>, <<"TRUE">>, <<"APPROVE">>}]
    ELSE IF StartsWith(line, <<"SCORE:">>)
      THEN ScoreLine(Strip(Remove(line, "SCORE:")), result)
    ELSE IF StartsWith(line, <<"REJECTION_REASON:">>)
      THEN [result EXCEPT !.rejection_reason = Strip(Remove(line, "REJECTION_REASON:"))]
    ELSE IF \/ StartsWith(line, <<"FEEDBACK:">>)
            \/ StartsWith(line, <<"RED_FLAGS:">>)
            \/ StartsWith(line, <<"STRENGTHS:">>)
      THEN result
    ELSE Bullet(line, result, section)

\* The section as it would be if a scalar header closed the open list.
CritiqueSectionClosedByScalar(line, section) ==
    IF \/ StartsWith(line, <<"APPROVED:">>)
       \/ StartsWith(line, <<"SCORE:">>)
       \/ StartsWith(line, <<"REJECTION_REASON:">>)
      THEN "none"
    ELSE IF StartsWith(line, <<"FEEDBACK:">>) THEN "feedback"
    ELSE IF StartsWith(line, <<"RED_FLAGS:">>) THEN "red_flags"
    ELSE IF StartsWith(line, <<"STRENGTHS:">>) THEN "strengths"
    ELSE section

CritiqueSection(line, section) ==
    IF \/ StartsWith(line, <<"APPROVED:">>)
       \/ StartsWith(line, <<"SCORE:">>)
       \/ StartsWith(line, <<"REJECTION_REASON:">>)
      THEN section
    ELSE IF StartsWith(line, <<"FEEDBACK:">>) THEN "feedback"
    ELSE IF StartsWith(line, <<"RED_FLAGS:">>) THEN "red_flags"
    ELSE IF StartsWith(line, <<"STRENGTHS:">>) THEN "strengths"
    ELSE section

RECURSIVE CritiqueLines(_, _, _, _)
CritiqueLines(lines, i, result, section) ==
    IF i > Len(lines)
      THEN result
      ELSE CritiqueLines(lines, i + 1,
                         CritiqueLine(Strip(lines[i]), result, section),
                         CritiqueSection(Strip(lines[i]), section))

CritiqueTry(response_text) ==
    IF response_text = NoText
      THEN [raised |-> TRUE, result |-> CritiqueDefaults]
      ELSE [raised |-> FALSE,
            result |-> CritiqueLines(response_text.lines, 1, CritiqueDefaults, "none")]

_parse_critique_response(response_text) == ParseGuarded(CritiqueTry(response_text))

\* Characters a SCORE: line is filled with.
ScoreChars == {"0", "1", "5", ".", "x", " "}

SeqsUpTo(S, n) == UNION { [1..k -> S] : k \in 0..n }

ScoreLines == { <<"SCORE:">> \o t : t \in SeqsUpTo(ScoreChars, MaxScoreChars) }

\* Lines that texts of several lines are made of.
LinePool ==
    { <<"SCORE:", " ", "0", ".", "8">>,
      <<"SCORE:", " ", "1", ".", "5">>,
      <<"SCORE:", " ", "h", "i", "g", "h">>,
      <<" ", "APPROVED:", " ", "yes">>,
      <<"APPROVED:", "NO">>,
      <<"APPROVED:", " ", "approved">>,
      <<"REJECTION_REASON:", " ", "weak">>,
      <<"REASONS:">>,
      <<"MISSING_SKILLS:">>,
      <<"STRENGTHS:">>,
      <<"RED_FLAGS:">>,
      <<"FEEDBACK:", " ">>,
      <<"-", " ", "django", " ">>,
      <<"-", "docker">>,
      <<>> }

ParseTexts ==
    {NoText} \cup { Text(<<l>>) : l \in ScoreLines }
             \cup { Text(t) : t \in SeqsUpTo(LinePool, MaxLines) }

ParseInit ==
    /\ NegIdle /\ RunIdle /\ RuleIdle
    /\ parse_op \in {"match", "critique", "critique_execute"}
    /\ parse_in \in ParseTexts
    /\ parse_pc = "call"
    /\ parse_out = <<>>

ParseMatch ==
    /\ parse_op = "match" /\ parse_pc = "call"
    /\ parse_out' = _parse_ai_response(parse_in)
    /\ parse_pc' = "return"
    /\ UNCHANGED <<parse_op, parse_in, negVars, runVars, ruleVars>>

ParseCritique ==
    /\ parse_op = "critique" /\ parse_pc = "call"
    /\ parse_out' = _parse_critique_response(parse_in)
    /\ parse_pc' = "return"
    /\ UNCHANGED <<parse_op, parse_in, negVars, runVars, ruleVars>>

\* The keys CritiqueAgent.execute has not written.
NoCritique ==
    [has_critique |-> FALSE, critique_score |-> 0, critique_feedback |-> <<>>,
     red_flags |-> <<>>, strengths |-> <<>>]

\* CritiqueAgent.execute on a list of one job: what was parsed, the list
\* returned, and the keys written onto the job.
CritiqueOne(parsed) ==
    [raised |-> parsed.raised,
     result |-> parsed.result,
     validated_jobs |-> IF parsed.result.approved THEN <<"job">> ELSE <<>>,
     attached |-> IF parsed.result.approved
                    THEN [has_critique |-> TRUE,
                          critique_score |-> parsed.result.score,
                          critique_feedback |-> parsed.result.feedback,
                          red_flags |-> parsed.result.red_flags,
                          strengths |-> parsed.result.strengths]
                    ELSE NoCritique]

\* CritiqueAgent.execute for one job, the assessor answering with the text.
CritiqueDelivered ==
    /\ parse_op = "critique_execute" /\ parse_pc = "call"
    /\ parse_out' = CritiqueOne(_parse_critique_response(parse_in))
    /\ parse_pc' = "return"
    /\ UNCHANGED <<parse_op, parse_in, negVars, runVars, ruleVars>>

ParseNext == ParseMatch \/ ParseCritique \/ CritiqueDelivered

SpecParse == ParseInit /\ [][ParseNext]_vars

Parsed == parse_pc = "return"

\* The SCORE: lines of the text.
ScoreTexts ==
    { Strip(Remove(Strip(parse_in.lines[i]), "SCORE:")) :
        i \in { j \in 1..Len(parse_in.lines) :
                    StartsWith(Strip(parse_in.lines[j]), <<"SCORE:">>) } }

\* C1: for every assessment text (empty, garbled, several SCORE lines, no
\* text at all) both parsers return a record without raising, its score is
\* within [0.0, 1.0], and it is 0.0 when no SCORE line yields a number.
C1_ParserTotalScoreInRange ==
    Parsed =>
        /\ ~parse_out.raised
        /\ parse_out.result.score >= 0
        /\ parse_out.result.score <= ScoreUnit
        /\ (\A t \in ScoreTexts : ~HasMatch(t)) => parse_out.result.score = 0

\* "SCORE: 1.5": a number above one is on the line, and 0.5 is what is kept.
C1_Witness ==
    /\ Parsed
    /\ parse_op = "critique"
    /\ parse_in = Text(<< <<"SCORE:", "1", ".", "5">> >>)
    /\ parse_out.result.score = 5 * (ScoreUnit \div 10)

\* The lines of the text that open with APPROVED:.
ApprovedLines ==
    { i \in DOMAIN parse_in.lines : StartsWith(Strip(parse_in.lines[i]), <<"APPROVED:">>) }

\* yes, true or approve, in any case, and nothing else on the line.
SaysYes(line) ==
    \E w \in {"yes", "Yes", "YES", "true", "True", "TRUE", "approve", "Approve", "APPROVE"} :
        Strip(Remove(Strip(line), "APPROVED:")) = <<w>>

\* C26: the critic's parser returns approved = true exactly when the text has
\* an APPROVED line and the last of them says yes, true or approve (in any
\* case, and nothing else); with no such line, or any other value there, it
\* returns approved = false and CritiqueAgent.execute leaves the job out of
\* its list and writes nothing onto it.
C26_FailsClosedLastDecides ==
    (Parsed /\ parse_op = "critique_execute") =>
        /\ parse_out.result.approved
              <=> /\ parse_in.present
                  /\ ApprovedLines # {}
                  /\ \E i \in ApprovedLines :
                        /\ \A k \in ApprovedLines : k <= i
                        /\ SaysYes(parse_in.lines[i])
        /\ ~parse_out.result.approved
              => parse_out.validated_jobs = <<>> /\ parse_out.attached = NoCritique
        /\ parse_out.result.approved => parse_out.validated_jobs = <<"job">>

\* "APPROVED: yes" and then "APPROVED:NO": the second decides and the job is
\* left out.
C26_Witness ==
    /\ Parsed /\ parse_op = "critique_execute"
    /\ parse_in = Text(<< <<" ", "APPROVED:", " ", "yes">>,
                          <<"SCORE:", " ", "0", ".", "8">>,
                          <<"APPROVED:", "NO">> >>)
    /\ ~parse_out.result.approved
    /\ parse_out.validated_jobs = <<>>

\* The list labels each parser's loop tests for, and all of them.
MatchLabels == {"REASONS:", "MISSING_SKILLS:"}

CritiqueLabels == {"FEEDBACK:", "RED_FLAGS:", "STRENGTHS:"}

ListLabels == MatchLabels \cup CritiqueLabels

\* The label of that set the line opens with, "none" if it opens with none.
LabelOf(line, labels) ==
    IF \E l \in labels : StartsWith(line, <<l>>)
      THEN CHOOSE l \in labels : StartsWith(line, <<l>>)
      ELSE "none"

\* The last label of the set on the lines 1..i of the text.
RECURSIVE LastLabel(_, _, _)
LastLabel(lines, i, labels) ==
    IF i = 0 THEN "none"
    ELSE IF LabelOf(Strip(lines[i]), labels) # "none"
      THEN LabelOf(Strip(lines[i]), labels)
    ELSE LastLabel(lines, i - 1, labels)

\* "- item" with an item.
IsBullet(line) == StartsWith(line, <<"-", " ">>) /\ Strip(Drop2(line)) # <<>>

\* The items of the bullets on lines 1..i whose last label before them is
\* the given one, in the order of the text.
RECURSIVE ItemsUnder(_, _, _, _)
ItemsUnder(lines, i, label, labels) ==
    IF i = 0 THEN <<>>
    ELSE IF IsBullet(Strip(lines[i])) /\ LastLabel(lines, i - 1, labels) = label
      THEN Append(ItemsUnder(lines, i - 1, label, labels), Strip(Drop2(Strip(lines[i]))))
    ELSE ItemsUnder(lines, i - 1, label, labels)

\* Every list of the returned record holds the bullets under its label, the
\* labels that open a section being those of the given set.
ListsFollow(labels) ==
    IF parse_op = "match"
      THEN /\ parse_out.result.reasons =
                ItemsUnder(parse_in.lines, Len(parse_in.lines), "REASONS:", labels)
           /\ parse_out.result.missing_skills =
                ItemsUnder(parse_in.lines, Len(parse_in.lines), "MISSING_SKILLS:", labels)
      ELSE /\ parse_out.result.feedback =
                ItemsUnder(parse_in.lines, Len(parse_in.lines), "FEEDBACK:", labels)
           /\ parse_out.result.red_flags =
                ItemsUnder(parse_in.lines, Len(parse_in.lines), "RED_FLAGS:", labels)
           /\ parse_out.result.strengths =
                ItemsUnder(parse_in.lines, Len(parse_in.lines), "STRENGTHS:", labels)

\* C20 as stated: each bullet goes to the list of the most recently seen list
\* label among FEEDBACK, RED_FLAGS, STRENGTHS, REASONS, MISSING_SKILLS, in
\* either parser, and nowhere when none was seen; scalar headers do not
\* change the section.
C20_BulletsUnderAnyLabel ==
    (Parsed /\ parse_in.present) => ListsFollow(ListLabels)

\* C20: each bullet goes to the list of the most recently seen list label of
\* the parser's own vocabulary (REASONS, MISSING_SKILLS in the matcher;
\* FEEDBACK, RED_FLAGS, STRENGTHS in the critic) and nowhere when none was
\* seen; scalar headers and the other parser's labels do not change the
\* section.
C20_BulletsUnderOwnLabel ==
    (Parsed /\ parse_in.present) =>
        ListsFollow(IF parse_op = "match" THEN MatchLabels ELSE CritiqueLabels)

\* A bullet after STRENGTHS: and a SCORE: line is a strength.
C20_Witness ==
    /\ Parsed
    /\ parse_op = "critique"
    /\ parse_in = Text(<< <<"STRENGTHS:">>, <<"SCORE:", " ", "0", ".", "8">>,
                          <<"-", " ", "django", " ">> >>)
    /\ parse_out.result.strengths = << <<"django">> >>

-----------------------------------------------------------------------------
(* MatcherAgent and CritiqueAgent: one job's assessment                    *)
(*                                                                         *)
(* Job and preference texts are sequences of words; a skill or keyword is  *)
(* "in" a text when its words occur there contiguously.  Messages are      *)
(* sequences of words too, so that a rule-based record and a parsed one    *)
(* are values of the same kind.                                            *)

\* config.user_preferences of the run.
Preferences ==
    [job_titles |-> << <<"Python", "Developer">> >>,
     locations |-> << <<"Bratislava">> >>,
     required_skills |-> << <<"Python">>, <<"Django">> >>,
     preferred_skills |-> << <<"Docker">> >>,
     min_salary |-> 3000]

\* The postings the scraper can deliver, by identity, in the order it finds
\* them.
JobPool ==
    << [title |-> <<"Senior", "Python", "Developer">>, location |-> <<"Bratislava">>,
        description |-> <<"django", "rest">>, salary |-> FALSE],
       [title |-> <<"Python", "Developer">>, location |-> <<"Bratislava">>,
        description |-> <<"python", "django", "docker">>, salary |-> TRUE],
       [title |-> <<"Frontend", "Developer">>, location |-> <<"Kos*ice">>,
        description |-> <<"unpaid", "trial">>, salary |-> FALSE] >>

JobIds == 1..Len(JobPool)

\* any(p.lower() in text.lower() for p in phrases)
AnyIn(phrases, text) ==
    \E k \in 1..Len(phrases) : Contains(Lower(text), Lower(phrases[k]))

\* sum(1 for skill in skills if skill.lower() in job_text)
CountIn(skills, job_text) ==
    Cardinality({ k \in 1..Len(skills) : Contains(job_text, Lower(skills[k])) })

\* The job text with the first attached missing skill among its words.
MatchTextWithAttached(job) ==
    Lower(job.title \o job.description
            \o (IF job.missing_skills = <<>> THEN <<>> ELSE job.missing_skills[1]))

\* f"{title} {description} {requirements} {full_description}".lower()
MatchText(job) == Lower(job.title \o job.description)

\* round(x, 2) of num/den hundredths, ties to even.
RoundDiv(num, den) ==
    IF 2 * (num % den) > den \/ (2 * (num % den) = den /\ (num \div den) % 2 = 1)
      THEN num \div den + 1
      ELSE num \div den

DigitStr == <<"0", "1", "2", "3", "4", "5", "6", "7", "8", "9">>

\* f"Matches {m}/{n} {kind} skills"
MatchesMsg(m, n, kind) ==
    <<"Matches", DigitStr[m + 1], "/", DigitStr[n + 1], kind, "skills">>

\* The whole weight when every skill is matched, nothing otherwise.
SkillTermAllOrNothing(weight, skills, job_text) ==
    IF skills # <<>> /\ CountIn(skills, job_text) = Len(skills)
      THEN weight * Len(skills) ELSE 0

\* 0.40 * matched/len, in hundredths times Len(skills); nothing for no skills.
SkillTerm(weight, skills, job_text) ==
    IF skills = <<>> THEN 0 ELSE weight * CountIn(skills, job_text)

SkillLen(skills) == IF skills = <<>> THEN 1 ELSE Len(skills)

\* The score before rounding, as a numerator over
\* SkillLen(required) * SkillLen(preferred) hundredths.
RuleScoreNum(job, preferences) ==
    ((IF AnyIn(preferences.job_titles, job.title) THEN 25 ELSE 0)
       + (IF AnyIn(preferences.locations, job.location) THEN 10 ELSE 0))
          * SkillLen(preferences.required_skills) * SkillLen(preferences.preferred_skills)
    + SkillTerm(40, preferences.required_skills, MatchText(job))
          * SkillLen(preferences.preferred_skills)
    + SkillTerm(20, preferences.preferred_skills, MatchText(job))
          * SkillLen(preferences.required_skills)

RuleReasons(job, preferences) ==
    (IF AnyIn(preferences.job_titles, job.title)
       THEN << <<"Job", "title", "matches", "preferences">> >> ELSE <<>>)
    \o (IF AnyIn(preferences.locations, job.location)
          THEN << <<"Location", "matches", "preferences">> >> ELSE <<>>)
    \o (IF CountIn(preferences.required_skills, MatchText(job)) > 0
          THEN << MatchesMsg(CountIn(preferences.required_skills, MatchText(job)),
                             Len(preferences.required_skills), "required") >>
          ELSE <<>>)
    \o (IF CountIn(preferences.preferred_skills, MatchText(job)) > 0
          THEN << MatchesMsg(CountIn(preferences.preferred_skills, MatchText(job)),
                             Len(preferences.preferred_skills), "preferred") >>
          ELSE <<>>)
    \o (IF preferences.min_salary # 0 /\ job.salary
          THEN << <<"Salary", "information", "available">> >> ELSE <<>>)

\* The closing entry added whatever the list holds.
ReasonsWithClosingEntry(reasons) ==
    Append(reasons, <<"No", "strong", "matches", "found">>)

NonEmptyReasons(reasons) ==
    IF reasons = <<>> THEN << <<"No", "strong", "matches", "found">> >> ELSE reasons

_rule_based_match(job, preferences) ==
    [score |-> RoundDiv(RuleScoreNum(job, preferences),
                        SkillLen(preferences.required_skills)
                            * SkillLen(preferences.preferred_skills))
                  * (ScoreUnit \div 100),
     reasons |-> NonEmptyReasons(RuleReasons(job, preferences)),
     missing_skills |->
        SelectSeq(preferences.required_skills,
                  LAMBDA skill : ~Contains(MatchText(job), Lower(skill)))]

\* What one call of the external assessor does: raise (network error, timeout,
\* a response without the expected parts), or deliver a text.
Raise == [kind |-> "raise", text |-> NoText]

Deliver(text) == [kind |-> "text", text |-> text]

\* No client is configured, so there is nothing to call.
NoCall == [kind |-> "nocall", text |-> NoText]

\* The result without the except clause's fallback: whatever the parser makes
\* of the outcome.
AssessedNoFallback(provider, outcome, parsed, rule_based) ==
    [calls |-> <<provider>>, result |-> parsed]

\* The result when a failed call is tried once more before falling back.
AssessedWithRetry(provider, outcome, parsed, rule_based) ==
    [calls |-> IF outcome.kind = "raise" THEN <<provider, provider>> ELSE <<provider>>,
     result |-> IF outcome.kind = "raise" THEN rule_based ELSE parsed]

\* try: create(...); return parse(text)  except Exception: return rule-based.
\* The result with the providers called for it.
Assessed(provider, outcome, parsed, rule_based) ==
    [calls |-> <<provider>>,
     result |-> IF outcome.kind = "raise" THEN rule_based ELSE parsed]

_ai_match_anthropic(job, preferences, outcome) ==
    Assessed("anthropic", outcome, _parse_ai_response(outcome.text).result,
             _rule_based_match(job, preferences))

_ai_match_openai(job, preferences, outcome) ==
    Assessed("openai", outcome, _parse_ai_response(outcome.text).result,
             _rule_based_match(job, preferences))

\* clients: which of the two API keys were in the environment.
_match_job(job, preferences, clients, outcome) ==
    IF clients \in {"anthropic", "both"}
      THEN _ai_match_anthropic(job, preferences, outcome)
    ELSE IF clients = "openai"
      THEN _ai_match_openai(job, preferences, outcome)
    ELSE [calls |-> <<>>, result |-> _rule_based_match(job, preferences)]

RECURSIVE JoinComma(_)
JoinComma(items) ==
    IF items = <<>> THEN <<>>
    ELSE IF Len(items) = 1 THEN items[1]
    ELSE items[1] \o <<",">> \o JoinComma(Tail(items))

FirstN(s, n) == SubSeq(s, 1, IF Len(s) < n THEN Len(s) ELSE n)

RedFlagKeywords ==
    << <<"unpaid">>, <<"no", "salary">>, <<"commission", "only">>, <<"must", "have", "car">> >>

\* f"{description} {full_description}".lower()
CritiqueText(job) == Lower(job.description)

RECURSIVE KeywordFlags(_, _)
KeywordFlags(job_text, k) ==
    IF k > Len(RedFlagKeywords) THEN <<>>
    ELSE (IF Contains(job_text, RedFlagKeywords[k])
            THEN << <<"Found", "potential", "red", "flag:">> \o RedFlagKeywords[k] >>
            ELSE <<>>)
         \o KeywordFlags(job_text, k + 1)

RuleRedFlags(job, missing_skills, strict_mode) ==
    (IF Len(missing_skills) > 3 /\ ~strict_mode
       THEN << <<"Missing", DigitStr[Len(missing_skills) + 1], "skills:">>
                  \o JoinComma(FirstN(missing_skills, 3)) >>
       ELSE <<>>)
    \o KeywordFlags(CritiqueText(job), 1)

\* The rejection with the missing-skill rule applied in either mode.
RuleRejectionInEitherMode(match_score, missing_skills, strict_mode) ==
    IF Len(missing_skills) > 3
      THEN <<"Too", "many", "missing", "required", "skills">>
    ELSE IF 10 * match_score < 5 * ScoreUnit
      THEN <<"Match", "score", "too", "low">>
    ELSE <<>>

RuleRejection(match_score, missing_skills, strict_mode) ==
    IF Len(missing_skills) > 3 /\ strict_mode
      THEN <<"Too", "many", "missing", "required", "skills">>
    ELSE IF 10 * match_score < 5 * ScoreUnit
      THEN <<"Match", "score", "too", "low">>
    ELSE <<>>

RuleStrengths(match_score, missing_skills, red_flags) ==
    (IF 10 * match_score >= 8 * ScoreUnit
       THEN << <<"Strong", "match", "score">> >> ELSE <<>>)
    \o (IF missing_skills = <<>>
          THEN << <<"All", "required", "skills", "matched">> >> ELSE <<>>)
    \o (IF red_flags = <<>>
          THEN << <<"No", "obvious", "red", "flags", "detected">> >> ELSE <<>>)

\* job: the posting; scored: its match_score and missing_skills as attached.
_rule_based_critique(job, scored, strict_mode) ==
    [approved |-> RuleRejection(scored.match_score, scored.missing_skills, strict_mode) = <<>>,
     score |-> scored.match_score,
     rejection_reason |-> RuleRejection(scored.match_score, scored.missing_skills, strict_mode),
     feedback |->
        IF RuleRejection(scored.match_score, scored.missing_skills, strict_mode) = <<>>
          THEN << <<"Job", "passes", "basic", "validation", "criteria">> >>
          ELSE << RuleRejection(scored.match_score, scored.missing_skills, strict_mode) >>,
     red_flags |-> RuleRedFlags(job, scored.missing_skills, strict_mode),
     strengths |-> RuleStrengths(scored.match_score, scored.missing_skills,
                                 RuleRedFlags(job, scored.missing_skills, strict_mode))]

_ai_critique_anthropic(job, scored, strict_mode, outcome) ==
    Assessed("anthropic", outcome, _parse_critique_response(outcome.text).result,
             _rule_based_critique(job, scored, strict_mode))

_ai_critique_openai(job, scored, strict_mode, outcome) ==
    Assessed("openai", outcome, _parse_critique_response(outcome.text).result,
             _rule_based_critique(job, scored, strict_mode))

_critique_job(job, scored, strict_mode, clients, outcome) ==
    IF clients \in {"anthropic", "both"}
      THEN _ai_critique_anthropic(job, scored, strict_mode, outcome)
    ELSE IF clients = "openai"
      THEN _ai_critique_openai(job, scored, strict_mode, outcome)
    ELSE [calls |-> <<>>, result |-> _rule_based_critique(job, scored, strict_mode)]

-----------------------------------------------------------------------------
(* JobAgentOrchestrator.run: scrape, match, critique, tailor, notify *)

MaxScraped == 3

\* matcher: config.get('min_match_score', 0.7), in tenths.
MinMatchTenths == 7

\* What the assessor can answer with.
GoodText ==
    Text(<< <<"APPROVED:", " ", "yes">>,
            <<"SCORE:", " ", "0", ".", "9">>,
            <<"REASONS:">>,
            <<"-", " ", "fit">>,
            <<"MISSING_SKILLS:">>,
            <<"-", " ", "go">>, <<"-", " ", "rust">>, <<"-", " ", "k8s">>,
            <<"-", " ", "aws">> >>)

FairText ==
    Text(<< <<"SCORE:", "0", ".", "7", "5">>, <<"APPROVED:", "TRUE">> >>)

GarbledText == Text(<< <<"score", " ", "?">>, <<"-", " ", "fit">> >>)

Outcomes(clients) ==
    IF clients = "none"
      THEN {NoCall}
      ELSE {Raise, Deliver(GoodText), Deliver(FairText), Deliver(GarbledText),
            Deliver(NoText)}

Configs ==
    [clients : {"none", "openai", "both"},
     critique_enabled : BOOLEAN,
     strict_mode : BOOLEAN,
     send_notifications : BOOLEAN,
     max_jobs : 1..MaxScraped]

\* What the scraper returns: some of the postings, each once (distinct urls).
ScrapedLists ==
    { s \in SeqsUpTo(JobIds, MaxScraped) :
        \A a, b \in 1..Len(s) : a < b => s[a] < s[b] }

\* The keys a stage attaches to a job dict.
NoFields ==
    [has_match |-> FALSE, match_score |-> 0, match_reasons |-> <<>>,
     missing_skills |-> <<>>,
     has_critique |-> FALSE, critique_score |-> 0, critique_feedback |-> <<>>,
     red_flags |-> <<>>, strengths |-> <<>>,
     tailored_cv |-> FALSE]

NoLast ==
    [stage |-> "none", job |-> 0, outcome |-> NoCall, result |-> <<>>, rule |-> <<>>]

CallKeys == {"match", "critique"} \X JobIds

Range(s) == { s[k] : k \in 1..Len(s) }

\* Position of s[k] after sorted(..., key=match_score, reverse=True): the
\* sort is stable, so equal scores keep their order.
Rank(s, attached, k) ==
    1 + Cardinality({ m \in 1..Len(s) :
            \/ attached[s[m]].match_score > attached[s[k]].match_score
            \/ attached[s[m]].match_score = attached[s[k]].match_score /\ m < k })

Sorted(s, attached) ==
    [r \in 1..Len(s) |-> s[CHOOSE k \in 1..Len(s) : Rank(s, attached, k) = r]]

\* The first max_jobs matches, kept as they come.
LimitUnsorted(matched, attached, max_jobs) == FirstN(matched, max_jobs)

\* if len(matched_jobs) > max_jobs: sorted(...)[:max_jobs]
Limit(matched, attached, max_jobs) ==
    IF Len(matched) > max_jobs
      THEN FirstN(Sorted(matched, attached), max_jobs)
      ELSE matched

\* The job goes on the list whatever the tailor returned.
TailorAppendAlways(with_cvs, job, tailored) == Append(with_cvs, job)

\* if tailored_cv_info: jobs_with_cvs.append(job)
TailorAppend(with_cvs, job, tailored) ==
    IF tailored = "cv" THEN Append(with_cvs, job) ELSE with_cvs

RunInit ==
    /\ NegIdle /\ ParseIdle /\ RuleIdle
    /\ run_pc = "scrape"
    /\ cfg \in Configs
    /\ profile = [cv_content |-> <<"Python", "Developer">>, preferences |-> Preferences]
    /\ jobs = <<>> /\ matched_jobs = <<>> /\ validated_jobs = <<>>
    /\ jobs_with_cvs = <<>> /\ notified = <<>>
    /\ fields = [j \in JobIds |-> NoFields]
    /\ idx = 1
    /\ calls = [k \in CallKeys |-> <<>>]
    /\ last = NoLast

\* Step 1: _scrape_jobs; "if not jobs: return".
Scrape ==
    /\ run_pc = "scrape"
    /\ \E s \in ScrapedLists :
          /\ jobs' = s
          /\ run_pc' = IF s = <<>> THEN "done" ELSE "match"
    /\ UNCHANGED <<cfg, profile, matched_jobs, validated_jobs, jobs_with_cvs, notified,
                   fields, idx, calls, last, negVars, parseVars, ruleVars>>

\* The loop body without the threshold test: every job is kept.
MatchStepKeepingAll(j, outcome, matched) ==
    /\ calls' = [calls EXCEPT ![<<"match", j>>] = @ \o matched.calls]
    /\ last' = [stage |-> "match", job |-> j, outcome |-> outcome,
                result |-> matched.result,
                rule |-> _rule_based_match(JobPool[j], profile.preferences)]
    /\ fields' = [fields EXCEPT ![j] =
          [@ EXCEPT !.has_match = TRUE,
                    !.match_score = matched.result.score,
                    !.match_reasons = matched.result.reasons,
                    !.missing_skills = matched.result.missing_skills]]
    /\ matched_jobs' = Append(matched_jobs, j)
    /\ idx' = idx + 1

\* One pass of the loop of MatcherAgent.execute, given what _match_job returned.
MatchStep(j, outcome, matched) ==
    /\ calls' = [calls EXCEPT ![<<"match", j>>] = @ \o matched.calls]
    /\ last' = [stage |-> "match", job |-> j, outcome |-> outcome,
                result |-> matched.result,
                rule |-> _rule_based_match(JobPool[j], profile.preferences)]
    /\ IF 10 * matched.result.score >= MinMatchTenths * ScoreUnit
         THEN /\ fields' = [fields EXCEPT ![j] =
                    [@ EXCEPT !.has_match = TRUE,
                              !.match_score = matched.result.score,
                              !.match_reasons = matched.result.reasons,
                              !.missing_skills = matched.result.missing_skills]]
              /\ matched_jobs' = Append(matched_jobs, j)
         ELSE UNCHANGED <<fields, matched_jobs>>
    /\ idx' = idx + 1

MatchJob ==
    /\ run_pc = "match" /\ idx <= Len(jobs)
    /\ \E outcome \in Outcomes(cfg.clients) :
          MatchStep(jobs[idx], outcome,
                    _match_job(JobPool[jobs[idx]], profile.preferences, cfg.clients, outcome))
    /\ UNCHANGED <<run_pc, cfg, profile, jobs, validated_jobs, jobs_with_cvs, notified,
                   negVars, parseVars, ruleVars>>

\* The end of _match_jobs, and "if not matched_jobs: return".
MatchReturn ==
    /\ run_pc = "match" /\ idx > Len(jobs)
    /\ matched_jobs' = Limit(matched_jobs, fields, cfg.max_jobs)
    /\ run_pc' = IF Limit(matched_jobs, fields, cfg.max_jobs) = <<>>
                    THEN "done" ELSE "critique"
    /\ idx' = 1
    /\ UNCHANGED <<cfg, profile, jobs, validated_jobs, jobs_with_cvs, notified, fields,
                   calls, last, negVars, parseVars, ruleVars>>

\* _critique_jobs with critique_enabled off: the matches pass as they are.
CritiqueSkip ==
    /\ run_pc = "critique" /\ ~cfg.critique_enabled
    /\ validated_jobs' = matched_jobs
    /\ run_pc' = "tailor"
    /\ UNCHANGED <<cfg, profile, jobs, matched_jobs, jobs_with_cvs, notified, fields, idx,
                   calls, last, negVars, parseVars, ruleVars>>

\* The loop body writing the critique onto the job whether approved or not.
CritiqueStepWritingAll(j, outcome, critiqued, rule) ==
    /\ calls' = [calls EXCEPT ![<<"critique", j>>] = @ \o critiqued.calls]
    /\ last' = [stage |-> "critique", job |-> j, outcome |-> outcome,
                result |-> critiqued.result, rule |-> rule]
    /\ fields' = [fields EXCEPT ![j] =
          [@ EXCEPT !.has_critique = TRUE,
                    !.critique_score = critiqued.result.score,
                    !.critique_feedback = critiqued.result.feedback,
                    !.red_flags = critiqued.result.red_flags,
                    !.strengths = critiqued.result.strengths]]
    /\ validated_jobs' = IF critiqued.result.approved
                            THEN Append(validated_jobs, j) ELSE validated_jobs
    /\ idx' = idx + 1

\* One pass of the loop of CritiqueAgent.execute.
CritiqueStep(j, outcome, critiqued, rule) ==
    /\ calls' = [calls EXCEPT ![<<"critique", j>>] = @ \o critiqued.calls]
    /\ last' = [stage |-> "critique", job |-> j, outcome |-> outcome,
                result |-> critiqued.result, rule |-> rule]
    /\ IF critiqued.result.approved
         THEN /\ fields' = [fields EXCEPT ![j] =
                    [@ EXCEPT !.has_critique = TRUE,
                              !.critique_score = critiqued.result.score,
                              !.critique_feedback = critiqued.result.feedback,
                              !.red_flags = critiqued.result.red_flags,
                              !.strengths = critiqued.result.strengths]]
              /\ validated_jobs' = Append(validated_jobs, j)
         ELSE UNCHANGED <<fields, validated_jobs>>
    /\ idx' = idx + 1

CritiqueJob ==
    /\ run_pc = "critique" /\ cfg.critique_enabled /\ idx <= Len(matched_jobs)
    /\ \E outcome \in Outcomes(cfg.clients) :
          CritiqueStep(matched_jobs[idx], outcome,
                       _critique_job(JobPool[matched_jobs[idx]], fields[matched_jobs[idx]],
                                     cfg.strict_mode, cfg.clients, outcome),
                       _rule_based_critique(JobPool[matched_jobs[idx]],
                                            fields[matched_jobs[idx]], cfg.strict_mode))
    /\ UNCHANGED <<run_pc, cfg, profile, jobs, matched_jobs, jobs_with_cvs, notified,
                   negVars, parseVars, ruleVars>>

\* The end of _critique_jobs, and "if not validated_jobs: return".
CritiqueReturn ==
    /\ run_pc = "critique" /\ cfg.critique_enabled /\ idx > Len(matched_jobs)
    /\ run_pc' = IF validated_jobs = <<>> THEN "done" ELSE "tailor"
    /\ idx' = 1
    /\ UNCHANGED <<cfg, profile, jobs, matched_jobs, validated_jobs, jobs_with_cvs, notified,
                   fields, calls, last, negVars, parseVars, ruleVars>>

\* One pass of the loop of _tailor_cvs: the tailor returns a record ("cv"),
\* returns None, or raises; the last two leave the job out.
TailorJob ==
    /\ run_pc = "tailor" /\ idx <= Len(validated_jobs)
    /\ \E tailored \in {"cv", "none", "raise"} :
          /\ jobs_with_cvs' = TailorAppend(jobs_with_cvs, validated_jobs[idx], tailored)
          /\ fields' = IF tailored = "cv"
                         THEN [fields EXCEPT ![validated_jobs[idx]].tailored_cv = TRUE]
                         ELSE fields
    /\ idx' = idx + 1
    /\ UNCHANGED <<run_pc, cfg, profile, jobs, matched_jobs, validated_jobs, notified,
                   calls, last, negVars, parseVars, ruleVars>>

TailorReturn ==
    /\ run_pc = "tailor" /\ idx > Len(validated_jobs)
    /\ run_pc' = "notify"
    /\ idx' = 1
    /\ UNCHANGED <<cfg, profile, jobs, matched_jobs, validated_jobs, jobs_with_cvs, notified,
                   fields, calls, last, negVars, parseVars, ruleVars>>

\* One pass of the loop of _send_notifications: notification.execute is
\* called for the job; whether it succeeds, fails or raises, the loop goes on.
NotifyJob ==
    /\ run_pc = "notify" /\ cfg.send_notifications /\ idx <= Len(jobs_with_cvs)
    /\ notified' = Append(notified, jobs_with_cvs[idx])
    /\ idx' = idx + 1
    /\ UNCHANGED <<run_pc, cfg, profile, jobs, matched_jobs, validated_jobs, jobs_with_cvs,
                   fields, calls, last, negVars, parseVars, ruleVars>>

\* The end of _send_notifications (at once when notifications are off), then
\* the summary.
NotifyReturn ==
    /\ run_pc = "notify"
    /\ ~cfg.send_notifications \/ idx > Len(jobs_with_cvs)
    /\ run_pc' = "done"
    /\ UNCHANGED <<cfg, profile, jobs, matched_jobs, validated_jobs, jobs_with_cvs, notified,
                   fields, idx, calls, last, negVars, parseVars, ruleVars>>

RunNext ==
    \/ Scrape
    \/ MatchJob \/ MatchReturn
    \/ CritiqueSkip \/ CritiqueJob \/ CritiqueReturn
    \/ TailorJob \/ TailorReturn
    \/ NotifyJob \/ NotifyReturn

SpecRun == RunInit /\ [][RunNext]_vars

-----------------------------------------------------------------------------
(* The run: properties *)

\* The assessor was asked about a job and its call raised.
CallRaised == last.stage # "none" /\ last.outcome.kind = "raise"

\* No credentials were configured for the job just assessed.
NoCredentials == last.stage # "none" /\ cfg.clients = "none"

\* The assessor delivered a text in which the parser finds no score: garbled
\* text, or no text at all.
MalformedText ==
    /\ last.stage # "none"
    /\ last.outcome.kind = "text"
    /\ last.outcome.text \in {GarbledText, NoText}

ParserDefaults == IF last.stage = "match" THEN MatchDefaults ELSE CritiqueDefaults

\* C2 as stated: a raised error or timeout, a malformed response text, or
\* absent credentials each give the job the rule-based result.
C2_AnyFailureFallsBack ==
    (CallRaised \/ NoCredentials \/ MalformedText) => last.result = last.rule

\* C2 as amended: a raised error or timeout (a response lacking its text part
\* included) or absent credentials give the job the rule-based result; a
\* malformed text that is delivered gives it the parser's record instead, all
\* defaults for a text without any recognised line.
C2_RaiseOrNoCredentialsFallsBack ==
    /\ (CallRaised \/ NoCredentials) => last.result = last.rule
    /\ MalformedText => (last.result = ParserDefaults /\ last.result # last.rule)

\* The critic's call raised for a job the matcher had scored from a text that
\* lists four missing skills; in strict mode the rules reject it.
C2_Witness ==
    /\ CallRaised
    /\ last.stage = "critique"
    /\ last.result.rejection_reason = <<"Too", "many", "missing", "required", "skills">>
    /\ last.result = _rule_based_critique(JobPool[last.job], fields[last.job],
                                          cfg.strict_mode)

\* C3: scoring and validation each call the assessor at most once per job:
\* never without credentials, once otherwise, the first configured provider
\* only, and a call that raised is followed by the rule-based result, not by
\* another call.
C3_AtMostOneCall ==
    /\ \A k \in CallKeys :
          /\ Len(calls[k]) <= 1
          /\ cfg.clients = "none" => calls[k] = <<>>
          /\ cfg.clients = "both" => calls[k] \in {<<>>, <<"anthropic">>}
          /\ cfg.clients = "openai" => calls[k] \in {<<>>, <<"openai">>}
    /\ CallRaised => /\ Len(calls[<<last.stage, last.job>>]) = 1
                     /\ last.result = last.rule

\* Both providers are configured, the first one's call raised in scoring, and
\* the run has gone on to its end.
C3_Witness ==
    /\ run_pc = "done"
    /\ cfg.clients = "both"
    /\ \E j \in JobIds :
          /\ calls[<<"match", j>>] = <<"anthropic">>
          /\ fields[j].has_match
          /\ fields[j].match_reasons = _rule_based_match(JobPool[j], Preferences).reasons

\* C4: each stage's output holds only jobs of the previous stage's output:
\* matched within scraped, validated within matched, tailored within
\* validated, notified within tailored and carrying a tailored CV; each list
\* without repeats.  Truncation and a disabled critique included.
C4_StagesNarrow ==
    /\ Range(matched_jobs) \subseteq Range(jobs)
    /\ Range(validated_jobs) \subseteq Range(matched_jobs)
    /\ Range(jobs_with_cvs) \subseteq Range(validated_jobs)
    /\ Range(notified) \subseteq Range(jobs_with_cvs)
    /\ \A j \in Range(notified) : fields[j].tailored_cv
    /\ \A j \in Range(jobs_with_cvs) : fields[j].tailored_cv
    /\ \A j \in Range(matched_jobs) : fields[j].has_match
    /\ Cardinality(Range(matched_jobs)) = Len(matched_jobs)
    /\ Cardinality(Range(notified)) = Len(notified)

\* A finished run with critique off, in which the limit dropped a scored job
\* and the tailor failed for none: the jobs kept were all notified.
C4_Witness ==
    /\ run_pc = "done"
    /\ ~cfg.critique_enabled
    /\ Len(matched_jobs) = cfg.max_jobs
    /\ \E j \in Range(jobs) \ Range(matched_jobs) : fields[j].has_match
    /\ notified = matched_jobs

\* The jobs among the first n of the input that carry a match, in input order.
RECURSIVE Kept(_, _, _)
Kept(input, n, attached) ==
    IF n = 0 THEN <<>>
    ELSE IF attached[input[n]].has_match
      THEN Append(Kept(input, n - 1, attached), input[n])
    ELSE Kept(input, n - 1, attached)

\* C16: MatcherAgent.execute returns exactly the input jobs whose score is at
\* least the minimum (the default 0.70), in input order, none duplicated or
\* reordered, each carrying the score, reasons and missing skills of its own
\* assessment: all through the loop the list is the input's jobs that carry a
\* match, in input order, and each pass attaches a match to the job at hand
\* exactly when its assessment's score reaches the minimum, with that
\* assessment's fields, touching no other job.
C16_ExactlyThoseAtThreshold ==
    /\ [](run_pc = "match" => matched_jobs = Kept(jobs, idx - 1, fields))
    /\ [][(run_pc = "match" /\ idx' = idx + 1) =>
            /\ last'.job = jobs[idx]
            /\ fields'[jobs[idx]].has_match
                  <=> 10 * last'.result.score >= 7 * ScoreUnit
            /\ fields'[jobs[idx]].has_match =>
                  /\ fields'[jobs[idx]].match_score = last'.result.score
                  /\ fields'[jobs[idx]].match_reasons = last'.result.reasons
                  /\ fields'[jobs[idx]].missing_skills = last'.result.missing_skills
            /\ ~fields'[jobs[idx]].has_match => fields'[jobs[idx]] = fields[jobs[idx]]
            /\ \A k \in JobIds \ {jobs[idx]} : fields'[k] = fields[k]]_vars

\* The keys MatcherAgent.execute writes, as they are on the job.
MatchKeys(f) == <<f.has_match, f.match_score, f.match_reasons, f.missing_skills>>

\* The keys CritiqueAgent.execute writes.
CritiqueKeys(f) ==
    <<f.has_critique, f.critique_score, f.critique_feedback, f.red_flags, f.strengths>>

\* C24: a job a stage filters out is left as it was: through the matcher's
\* loop only the jobs on its list carry any key, a job carries the critique
\* keys only when it is on the critic's list, a pass of the critic's loop
\* leaves a rejected job and every other job untouched and the match keys of
\* an approved one as they were, and no step changes the CV content or the
\* preferences.
C24_FilteredJobsUntouched ==
    /\ [](run_pc = "match" =>
            \A j \in JobIds : fields[j] # NoFields => j \in Range(matched_jobs))
    /\ [](run_pc \in {"match", "critique", "tailor", "notify", "done"} =>
            \A j \in JobIds :
                CritiqueKeys(fields[j]) # CritiqueKeys(NoFields)
                    => j \in Range(validated_jobs))
    /\ [][(run_pc = "critique" /\ idx' = idx + 1) =>
            /\ validated_jobs' = validated_jobs
                  => fields'[matched_jobs[idx]] = fields[matched_jobs[idx]]
            /\ MatchKeys(fields'[matched_jobs[idx]]) = MatchKeys(fields[matched_jobs[idx]])
            /\ \A k \in JobIds \ {matched_jobs[idx]} : fields'[k] = fields[k]]_vars
    /\ [][run_pc # "idle" => profile' = profile]_vars

\* The critic has just rejected a matched job and it carries the match keys
\* only, while another job was approved before it and one never matched.
C24_Witness ==
    /\ run_pc = "critique"
    /\ last.stage = "critique" /\ ~last.result.approved
    /\ fields[last.job].has_match
    /\ CritiqueKeys(fields[last.job]) = CritiqueKeys(NoFields)
    /\ validated_jobs # <<>>
    /\ \E j \in Range(jobs) : fields[j] = NoFields

\* Three jobs in, the middle one under the minimum: the first and the third
\* are returned, in that order.
C16_Witness ==
    /\ run_pc = "match" /\ idx > Len(jobs)
    /\ jobs = <<1, 2, 3>>
    /\ matched_jobs = <<1, 3>>
    /\ ~fields[2].has_match

-----------------------------------------------------------------------------
(* The rule-based fallbacks, called directly: _rule_based_match once, or    *)
(* inside MatcherAgent.execute (no credentials) and once more on the job    *)
(* execute has written to, and _rule_based_critique.                        *)

\* Longest skill list of the preferences, and longest missing-skill list.
MaxSkills == 3

MaxMissing == 4

RequiredPool == << <<"rust">>, <<"Python">>, <<"Django">>, <<"sql">>, <<"go">> >>

PreferredPool == << <<"Docker">>, <<"aws">>, <<"REST">>, <<"helm">>, <<"rust">> >>

RulePreferences ==
    { [job_titles |-> t, locations |-> l, required_skills |-> FirstN(RequiredPool, n),
       preferred_skills |-> FirstN(PreferredPool, p), min_salary |-> m] :
        t \in { <<>>, << <<"Python", "Developer">> >> },
        l \in { <<>>, << <<"Remote">>, <<"Bratislava">> >> },
        n \in 0..MaxSkills, p \in 0..MaxSkills, m \in {None, 3000} }

\* Postings as scraped: no key attached yet.
RuleJobs ==
    { [title |-> t, location |-> l, description |-> d, salary |-> y,
       has_match |-> FALSE, match_score |-> 0, match_reasons |-> <<>>,
       missing_skills |-> <<>>] :
        t \in { <<"Senior", "Python", "Developer">>, <<"Frontend", "Developer">> },
        l \in { <<"Bratislava">>, <<"Kos*ice">> },
        d \in { <<>>, <<"django", "rest">>, <<"python", "django", "docker", "aws">>,
                <<"rust", "python", "sql", "unpaid", "trial">> },
        y \in BOOLEAN }

\* Postings as the critic finds them, with the matcher's keys on them.
CritiqueJobs ==
    { [description |-> d, match_score |-> k * (ScoreUnit \div 100),
       missing_skills |-> FirstN(RequiredPool, n)] :
        d \in { <<"django", "rest">>, <<"unpaid", "trial">>,
                <<"commission", "only", "must", "have", "car">> },
        k \in {0, 49, 50, 70, 80, 100}, n \in 0..MaxMissing }

RuleInit ==
    /\ NegIdle /\ ParseIdle /\ RunIdle
    /\ rule_op \in {"match", "twice", "critique"}
    /\ rule_in \in (IF rule_op = "critique"
                      THEN { [strict_mode |-> b] : b \in BOOLEAN }
                      ELSE { [preferences |-> q] : q \in RulePreferences })
    /\ rule_job \in (IF rule_op = "critique" THEN CritiqueJobs ELSE RuleJobs)
    /\ rule_pc = "call"
    /\ rule_out = <<>>

\* _rule_based_match(job, preferences)
RuleMatch ==
    /\ rule_op = "match" /\ rule_pc = "call"
    /\ rule_out' = _rule_based_match(rule_job, rule_in.preferences)
    /\ rule_pc' = "return"
    /\ UNCHANGED <<rule_op, rule_in, rule_job, negVars, parseVars, runVars>>

\* The body of execute's loop for the job, no client being initialised:
\* _match_job returns _rule_based_match's result and the job gets the keys
\* when the score reaches the minimum.
RuleMatchInExecute ==
    /\ rule_op = "twice" /\ rule_pc = "call"
    /\ rule_out' = [first |-> _rule_based_match(rule_job, rule_in.preferences)]
    /\ rule_job' =
          IF 10 * _rule_based_match(rule_job, rule_in.preferences).score
                >= MinMatchTenths * ScoreUnit
            THEN [rule_job EXCEPT
                    !.has_match = TRUE,
                    !.match_score = _rule_based_match(rule_job, rule_in.preferences).score,
                    !.match_reasons =
                        _rule_based_match(rule_job, rule_in.preferences).reasons,
                    !.missing_skills =
                        _rule_based_match(rule_job, rule_in.preferences).missing_skills]
            ELSE rule_job
    /\ rule_pc' = "attached"
    /\ UNCHANGED <<rule_op, rule_in, negVars, parseVars, runVars>>

\* _rule_based_match on the job as execute left it.
RuleMatchAgain ==
    /\ rule_op = "twice" /\ rule_pc = "attached"
    /\ rule_out' = [first |-> rule_out.first,
                    second |-> _rule_based_match(rule_job, rule_in.preferences)]
    /\ rule_pc' = "return"
    /\ UNCHANGED <<rule_op, rule_in, rule_job, negVars, parseVars, runVars>>

\* _rule_based_critique(job)
RuleCritique ==
    /\ rule_op = "critique" /\ rule_pc = "call"
    /\ rule_out' = _rule_based_critique(rule_job, rule_job, rule_in.strict_mode)
    /\ rule_pc' = "return"
    /\ UNCHANGED <<rule_op, rule_in, rule_job, negVars, parseVars, runVars>>

RuleNext == RuleMatch \/ RuleMatchInExecute \/ RuleMatchAgain \/ RuleCritique

SpecRule == RuleInit /\ [][RuleNext]_vars

RuleMatched == rule_op = "match" /\ rule_pc = "return"

\* Whether some phrase of the list occurs in the text, case aside.
SomeIn(phrases, text) ==
    \E k \in DOMAIN phrases : Contains(Lower(text), Lower(phrases[k]))

\* How many skills of the list occur in the job's title and description.
Found(skills, job) ==
    Cardinality({ k \in DOMAIN skills :
                    Contains(Lower(job.title \o job.description), Lower(skills[k])) })

\* 100 * n * p times the weighted sum of C15, n and p being the lengths of the
\* required and preferred lists (1 for an empty list, whose term is 0).
Weighted(job, q, n, p) ==
    (IF SomeIn(q.job_titles, job.title) THEN 25 * n * p ELSE 0)
    + (IF SomeIn(q.locations, job.location) THEN 10 * n * p ELSE 0)
    + (IF q.required_skills = <<>> THEN 0 ELSE 40 * Found(q.required_skills, job) * p)
    + (IF q.preferred_skills = <<>> THEN 0 ELSE 20 * Found(q.preferred_skills, job) * n)

\* The score in hundredths is a nearest whole number to x / d.
Nearest(score, x, d) ==
    /\ 2 * (100 * score * d - ScoreUnit * x) <= ScoreUnit * d
    /\ 2 * (ScoreUnit * x - 100 * score * d) <= ScoreUnit * d
    /\ score % (ScoreUnit \div 100) = 0

OneIfNone(skills) == IF skills = <<>> THEN 1 ELSE Len(skills)

\* C15: the rule-based score is the weighted sum 0.25 [title] + 0.10
\* [location] + 0.40 (required matched / required) + 0.20 (preferred matched
\* / preferred), a term being 0 for an empty list, rounded to two decimals;
\* it lies in [0, 1]; with no required and no preferred skills it is at most
\* 0.35 and a result is returned.
C15_WeightedSumRounded ==
    RuleMatched =>
        /\ Nearest(rule_out.score,
                   Weighted(rule_job, rule_in.preferences,
                            OneIfNone(rule_in.preferences.required_skills),
                            OneIfNone(rule_in.preferences.preferred_skills)),
                   OneIfNone(rule_in.preferences.required_skills)
                       * OneIfNone(rule_in.preferences.preferred_skills))
        /\ rule_out.score >= 0 /\ rule_out.score <= ScoreUnit
        /\ (rule_in.preferences.required_skills = <<>>
              /\ rule_in.preferences.preferred_skills = <<>>)
                 => 100 * rule_out.score <= 35 * ScoreUnit

\* Two of three required and one of three preferred skills, title and
\* location matching: 0.25 + 0.10 + 0.2667 + 0.0667 = 0.68.
C15_Witness ==
    /\ RuleMatched
    /\ Len(rule_in.preferences.required_skills) = 3
    /\ Len(rule_in.preferences.preferred_skills) = 3
    /\ Found(rule_in.preferences.required_skills, rule_job) = 2
    /\ Found(rule_in.preferences.preferred_skills, rule_job) = 1
    /\ 100 * rule_out.score = 68 * ScoreUnit

\* The reasons of the returned record, as a set.
Reasons == { rule_out.reasons[k] : k \in DOMAIN rule_out.reasons }

TitleReason == <<"Job", "title", "matches", "preferences">>

LocationReason == <<"Location", "matches", "preferences">>

SalaryReason == <<"Salary", "information", "available">>

NoMatchReason == <<"No", "strong", "matches", "found">>

\* The reason names so many of the skills of that kind.
SkillReason(r, kind) ==
    Len(r) = 6 /\ r[1] = "Matches" /\ r[5] = kind /\ r[6] = "skills"

\* The component reasons whose component added to the score are there, and
\* no others.
ComponentReasons ==
    /\ TitleReason \in Reasons
          <=> SomeIn(rule_in.preferences.job_titles, rule_job.title)
    /\ LocationReason \in Reasons
          <=> SomeIn(rule_in.preferences.locations, rule_job.location)
    /\ (\E r \in Reasons : SkillReason(r, "required"))
          <=> Found(rule_in.preferences.required_skills, rule_job) > 0
    /\ (\E r \in Reasons : SkillReason(r, "preferred"))
          <=> Found(rule_in.preferences.preferred_skills, rule_job) > 0

\* C23 as stated: the reasons are entries of components that added to the
\* score, and with score 0 the list is the single entry that no strong match
\* was found.
C23_OnlyScoringReasons ==
    RuleMatched =>
        /\ ComponentReasons
        /\ \A r \in Reasons :
              \/ r \in {TitleReason, LocationReason, NoMatchReason}
              \/ SkillReason(r, "required") \/ SkillReason(r, "preferred")
        /\ rule_out.score = 0 => rule_out.reasons = <<NoMatchReason>>

\* C23: the list has an entry for a component exactly when it added to the
\* score, an entry "Salary information available" exactly when a minimum
\* salary is preferred and the job states a salary (which adds nothing to the
\* score), and the single entry "No strong matches found" exactly when it
\* would otherwise be empty.
C23_ScoringReasonsAndSalary ==
    RuleMatched =>
        /\ ComponentReasons
        /\ SalaryReason \in Reasons
              <=> (rule_in.preferences.min_salary # None /\ rule_job.salary)
        /\ \A r \in Reasons :
              \/ r \in {TitleReason, LocationReason, SalaryReason, NoMatchReason}
              \/ SkillReason(r, "required") \/ SkillReason(r, "preferred")
        /\ NoMatchReason \in Reasons
              <=> (rule_out.score = 0
                     /\ ~(rule_in.preferences.min_salary # None /\ rule_job.salary))
        /\ NoMatchReason \in Reasons => Len(rule_out.reasons) = 1

\* Nothing matches, but the job states a salary: the one reason is the
\* salary's, at score 0.
C23_Witness ==
    /\ RuleMatched
    /\ rule_out.score = 0
    /\ rule_out.reasons = <<SalaryReason>>

RuleCritiqued == rule_op = "critique" /\ rule_pc = "return"

\* C17: the rule-based critic rejects a job if and only if its match score is
\* below 0.5, or strict mode is on and more than three skills are missing;
\* red-flag keywords and, outside strict mode, the number of missing skills
\* add red flags only.
C17_RejectedIffLowOrStrictMissing ==
    RuleCritiqued =>
        (~rule_out.approved <=>
            \/ 10 * rule_job.match_score < 5 * ScoreUnit
            \/ rule_in.strict_mode /\ Len(rule_job.missing_skills) > 3)

\* Outside strict mode, four skills missing and a keyword hit: two red flags,
\* and the job is approved.
C17_Witness ==
    /\ RuleCritiqued
    /\ ~rule_in.strict_mode
    /\ Len(rule_job.missing_skills) = 4
    /\ Len(rule_out.red_flags) = 2
    /\ rule_out.approved

\* C18: the fallback scorer called a second time on the same job and
\* preferences returns the same score, reasons and missing skills as the
\* first time, also when the first call was execute's and the job has had
\* match_score, match_reasons and missing_skills attached in between.
C18_SecondCallSame ==
    (rule_op = "twice" /\ rule_pc = "return") =>
        /\ rule_out.second.score = rule_out.first.score
        /\ rule_out.second.reasons = rule_out.first.reasons
        /\ rule_out.second.missing_skills = rule_out.first.missing_skills

\* The job matched with a skill missing, so execute wrote all three keys.
C18_Witness ==
    /\ rule_op = "twice" /\ rule_pc = "return"
    /\ rule_job.has_match
    /\ rule_job.missing_skills # <<>>
    /\ rule_job.match_reasons = rule_out.second.reasons

-----------------------------------------------------------------------------
(* NegotiationAgent: market data *)

\* salary_database, in the dict's insertion order; a missing location has no row.
GlassdoorKeys ==
    << <<"python", "developer">>, <<"backend", "developer">>,
       <<"fullstack", "developer">>, <<"senior", "python", "developer">>,
       <<"devops", "engineer">> >>

Row(avg, min, max, p25, p50, p75) ==
    [avg |-> avg, min |-> min, max |-> max, p25 |-> p25, p50 |-> p50, p75 |-> p75]

GlassdoorLocs(k) ==
    CASE k = 1 -> { <<"bratislava">>, <<"kosice">>, <<"remote">> }
      [] k = 2 -> { <<"bratislava">>, <<"kosice">>, <<"remote">> }
      [] OTHER -> { <<"bratislava">>, <<"remote">> }

GlassdoorRow(k, loc) ==
    CASE k = 1 /\ loc = <<"bratislava">> -> Row(3200, 2400, 4800, 2800, 3200, 3800)
      [] k = 1 /\ loc = <<"kosice">>     -> Row(2600, 2000, 3800, 2300, 2600, 3100)
      [] k = 1 /\ loc = <<"remote">>     -> Row(3500, 2600, 5200, 3000, 3500, 4200)
      [] k = 2 /\ loc = <<"bratislava">> -> Row(3400, 2600, 5000, 2900, 3400, 4000)
      [] k = 2 /\ loc = <<"kosice">>     -> Row(2800, 2200, 4000, 2500, 2800, 3300)
      [] k = 2 /\ loc = <<"remote">>     -> Row(3700, 2800, 5400, 3200, 3700, 4400)
      [] k = 3 /\ loc = <<"bratislava">> -> Row(3300, 2500, 4900, 2850, 3300, 3900)
      [] k = 3 /\ loc = <<"remote">>     -> Row(3600, 2700, 5300, 3100, 3600, 4300)
      [] k = 4 /\ loc = <<"bratislava">> -> Row(4200, 3400, 6000, 3700, 4200, 5000)
      [] k = 4 /\ loc = <<"remote">>     -> Row(4800, 3800, 6800, 4200, 4800, 5600)
      [] k = 5 /\ loc = <<"bratislava">> -> Row(3800, 3000, 5500, 3300, 3800, 4500)
      [] k = 5 /\ loc = <<"remote">>     -> Row(4200, 3300, 6000, 3700, 4200, 5000)

\* The keys whose name contains the title or is contained in it, and that have
\* a row for the location: the loop returns at the first of them.
GlassdoorHits(title, loc) ==
    { k \in 1..Len(GlassdoorKeys) :
        /\ Contains(title, GlassdoorKeys[k]) \/ Contains(GlassdoorKeys[k], title)
        /\ loc \in GlassdoorLocs(k) }

Min(S) == CHOOSE x \in S : \A y \in S : x <= y
Max(S) == CHOOSE x \in S : \A y \in S : x >= y

NoData ==
    [found |-> FALSE, average_salary |-> None, min_salary |-> None,
     max_salary |-> None, percentile_25 |-> None, percentile_50 |-> None,
     percentile_75 |-> None, data_points |-> 0]

\* The row's fields with the two outer percentiles exchanged.
GlassdoorResultSwapped(data) ==
    [found |-> TRUE,
     average_salary |-> Eur(data.avg), min_salary |-> Eur(data.min),
     max_salary |-> Eur(data.max), percentile_25 |-> Eur(data.p75),
     percentile_50 |-> Eur(data.p50), percentile_75 |-> Eur(data.p25),
     data_points |-> 100]

GlassdoorResult(data) ==
    [found |-> TRUE,
     average_salary |-> Eur(data.avg), min_salary |-> Eur(data.min),
     max_salary |-> Eur(data.max), percentile_25 |-> Eur(data.p25),
     percentile_50 |-> Eur(data.p50), percentile_75 |-> Eur(data.p75),
     data_points |-> 100]

_scrape_glassdoor_slovakia(title, loc) ==
    IF GlassdoorHits(title, loc) = {} THEN NoData
    ELSE GlassdoorResult(GlassdoorRow(Min(GlassdoorHits(title, loc)), loc))

\* base_salaries
ProfesiaKeywords == {"python", "backend", "fullstack", "frontend", "devops", "senior"}

ProfesiaBase(kw) ==
    CASE kw = "python" -> 3100 [] kw = "backend" -> 3300 [] kw = "fullstack" -> 3200
      [] kw = "frontend" -> 2900 [] kw = "devops" -> 3700 [] kw = "senior" -> 4500

ProfesiaDefault == 2800

ProfesiaFound(title) ==
    { ProfesiaBase(kw) : kw \in { k \in ProfesiaKeywords : Contains(title, <<k>>) } }

\* An estimate only for a title with one of the keywords.
ProfesiaForKeywordsOnly(title, loc) ==
    IF ProfesiaFound(title) = {} THEN NoData
    ELSE [NoData EXCEPT !.found = TRUE,
                        !.average_salary = Eur(Max(ProfesiaFound(title))),
                        !.data_points = 50]

_scrape_profesia_salaries(title, loc) ==
    [NoData EXCEPT !.found = TRUE,
                   !.average_salary = Eur(Max(ProfesiaFound(title) \cup {ProfesiaDefault})),
                   !.data_points = 50]

_scrape_platy_sk(title) ==
    IF Contains(title, <<"python">>)
        THEN [NoData EXCEPT !.found = TRUE, !.average_salary = Eur(3000), !.data_points = 30]
    ELSE IF Contains(title, <<"senior">>)
        THEN [NoData EXCEPT !.found = TRUE, !.average_salary = Eur(4300), !.data_points = 25]
    ELSE NoData

\* re.findall(r'\d+', salary_text): job.salary is held as the list of the
\* numbers (digit runs) in the text.
SalaryRange(min_sal, max_sal) ==
    [NoData EXCEPT !.found = TRUE,
                   !.min_salary = min_sal,
                   !.max_salary = max_sal,
                   !.average_salary = (min_sal + max_sal) \div 2,
                   !.percentile_50 = (min_sal + max_sal) \div 2]

_extract_salary_from_job(job) ==
    IF Len(job.salary) >= 2
        THEN SalaryRange(Eur(job.salary[1]), Eur(job.salary[2]))
    ELSE NoData

\* location_multipliers, in the dict's insertion order, as percentages.
LocationKeys ==
    << <<"bratislava">>, <<"kos*ice">>, <<"z*ilina">>, <<"banska*", "bystrica">>,
       <<"pres*ov">>, <<"nitra">>, <<"remote">>, <<"eu", "remote">> >>

LocationPercent == <<100, 85, 80, 78, 80, 82, 110, 130>>

\* The keys contained in the location as written, without lower-casing it.
LocationHitsCaseSensitive(location) ==
    { k \in 1..Len(LocationKeys) : Contains(location, LocationKeys[k]) }

\* The loop breaks at the first key contained in the lower-cased location.
LocationHits(location) ==
    { k \in 1..Len(LocationKeys) : Contains(Lower(location), LocationKeys[k]) }

Multiplier(location) ==
    IF LocationHits(location) = {} THEN 100 ELSE LocationPercent[Min(LocationHits(location))]

Scaled(amount, pct) == IF amount # None THEN IntEur((amount * pct) \div 100) ELSE amount

\* The multiplier applied to every amount of the record.
ApplyMultiplierToAll(market_data, m) ==
    [market_data EXCEPT !.average_salary = Scaled(@, m),
                        !.min_salary = Scaled(@, m),
                        !.max_salary = Scaled(@, m),
                        !.percentile_25 = Scaled(@, m),
                        !.percentile_50 = Scaled(@, m),
                        !.percentile_75 = Scaled(@, m)]

ApplyMultiplier(market_data, m) ==
    [market_data EXCEPT !.average_salary = Scaled(@, m),
                        !.min_salary = Scaled(@, m),
                        !.max_salary = Scaled(@, m)]

_apply_slovakia_market_factors(market_data, location) ==
    ApplyMultiplier(market_data, Multiplier(location))

\* The later source's average taking the place of the earlier one.
MergeReplacing(existing, new) == new

\* (existing + new) / 2 when an average is already there, else the new one.
Merge(existing, new) == IF existing # None THEN (existing + new) \div 2 ELSE new

EmptyMarketData ==
    [average_salary |-> None, min_salary |-> None, max_salary |-> None,
     percentile_25 |-> None, percentile_50 |-> None, percentile_75 |-> None,
     data_points |-> 0, sources |-> <<>>]

\* market_data.update(glassdoor_data); sources.append("Glassdoor SK")
WithGlassdoor(market_data, g) ==
    IF g.found
      THEN [average_salary |-> g.average_salary, min_salary |-> g.min_salary,
            max_salary |-> g.max_salary, percentile_25 |-> g.percentile_25,
            percentile_50 |-> g.percentile_50, percentile_75 |-> g.percentile_75,
            data_points |-> g.data_points,
            sources |-> Append(market_data.sources, "Glassdoor SK")]
      ELSE market_data

\* The average merged in without recording where it came from.
WithAverageUnnamed(market_data, d, name) ==
    IF d.found
      THEN [market_data EXCEPT !.average_salary = Merge(@, d.average_salary)]
      ELSE market_data

\* The Profesia and Platy merges: only the average is taken.
WithAverage(market_data, d, name) ==
    IF d.found
      THEN [market_data EXCEPT !.average_salary = Merge(@, d.average_salary),
                               !.sources = Append(@, name)]
      ELSE market_data

\* The fallback to the posting's own salary text.
WithJobPosting(market_data, s) ==
    IF market_data.average_salary = None /\ s.found
      THEN [market_data EXCEPT !.min_salary = s.min_salary,
                               !.max_salary = s.max_salary,
                               !.average_salary = s.average_salary,
                               !.percentile_50 = s.percentile_50,
                               !.sources = Append(@, "Job Posting")]
      ELSE market_data

\* The sources merged in the order of the code, before the location
\* adjustment.
FusedMarketData(job) ==
    WithJobPosting(
        WithAverage(
            WithAverage(
                WithGlassdoor(EmptyMarketData,
                    _scrape_glassdoor_slovakia(Lower(job.title), Lower(job.location))),
                _scrape_profesia_salaries(Lower(job.title), job.location),
                "Profesia SK"),
            _scrape_platy_sk(Lower(job.title)),
            "Platy.sk"),
        _extract_salary_from_job(job))

_get_market_data_slovakia(job) ==
    _apply_slovakia_market_factors(FusedMarketData(job), job.location)

-----------------------------------------------------------------------------
(* NegotiationAgent: offer analysis, strategy, scripts *)

DefaultAnalysis ==
    [offer_vs_market |-> "unknown", percentile |-> "None",
     gap_to_target |-> [set |-> FALSE, amount |-> 0, percent_of |-> 0],
     negotiation_room |-> "medium", market_position |-> "fair"]

\* The percentile bucket, computed only when p25 and p75 are both there.
Bucket(analysis, current_offer, market_data) ==
    IF market_data.percentile_25 # None /\ market_data.percentile_75 # None
      THEN IF current_offer < market_data.percentile_25
             THEN [analysis EXCEPT !.percentile = "<25th",
                                   !.offer_vs_market = "below_market",
                                   !.negotiation_room = "high"]
           ELSE IF current_offer < market_data.percentile_50
             THEN [analysis EXCEPT !.percentile = "25-50th",
                                   !.offer_vs_market = "fair",
                                   !.negotiation_room = "medium"]
           ELSE IF current_offer < market_data.percentile_75
             THEN [analysis EXCEPT !.percentile = "50-75th",
                                   !.offer_vs_market = "good",
                                   !.negotiation_room = "medium"]
           ELSE [analysis EXCEPT !.percentile = ">75th",
                                 !.offer_vs_market = "excellent",
                                 !.negotiation_room = "low"]
      ELSE analysis

\* gap_percent = gap / current_offer * 100 is held as gap over current_offer.
WithGap(analysis, current_offer, user_target) ==
    IF user_target # None
      THEN [analysis EXCEPT !.gap_to_target =
               [set |-> TRUE, amount |-> user_target - current_offer,
                percent_of |-> current_offer]]
      ELSE analysis

\* diff_percent = (current_offer - avg) / avg * 100 against -10, 5, 15, exactly.
MarketPosition(current_offer, avg) ==
    IF (current_offer - avg) * 100 < (-10) * avg THEN "below_market"
    ELSE IF (current_offer - avg) * 100 < 5 * avg THEN "fair"
    ELSE IF (current_offer - avg) * 100 < 15 * avg THEN "good"
    ELSE "excellent"

_analyze_offer(job, current_offer, market_data, user_target) ==
    IF current_offer = None \/ market_data.average_salary = None THEN DefaultAnalysis
    ELSE [WithGap(Bucket(DefaultAnalysis, current_offer, market_data),
                  current_offer, user_target)
            EXCEPT !.market_position =
                       MarketPosition(current_offer, market_data.average_salary)]

\* One leverage point: the sentence's kind and the figure or names it quotes.
LP(kind, amount, names) == [kind |-> kind, amount |-> amount, names |-> names]

\* x or y
Or(x, y) == IF x # None THEN x ELSE y

\* int(x) of an amount in hundredths, truncating toward zero.
IntTrunc(c) == IF c >= 0 THEN (c \div 100) * 100 ELSE -(((-c) \div 100) * 100)

AlternativeBenefits ==
    <<"Additional vacation days", "Remote work flexibility",
      "Professional development budget", "Sign-on bonus", "Stock options or equity">>

DefaultStrategy ==
    [should_negotiate |-> TRUE, counter_offer |-> None,
     min_acceptable |-> None, ideal_outcome |-> None,
     leverage_points |-> <<>>, risks |-> <<>>, alternative_benefits |-> <<>>]

\* No offer yet: the guidance figures.
Guidance(strategy, market_data, user_target) ==
    IF market_data.percentile_75 # None
      THEN [strategy EXCEPT !.counter_offer = market_data.percentile_75,
                            !.min_acceptable = market_data.percentile_50,
                            !.ideal_outcome = market_data.max_salary]
      ELSE [strategy EXCEPT !.counter_offer = Or(user_target, Eur(4000)),
                            !.min_acceptable = Eur(3500)]

\* No offer yet: the three leverage points, and the early return.
GuidancePoints(strategy) ==
    [strategy EXCEPT !.leverage_points =
        << LP("Market data shows role commands", IntTrunc(strategy.counter_offer), <<>>),
           LP("Your skills are in high demand", 0, <<>>),
           LP("Remote work capabilities add value", 0, <<>>) >>]

\* The branch taken when an offer is present, keyed by analysis.offer_vs_market.
CounterBranch(analysis) ==
    IF analysis.offer_vs_market \in {"below_market", "fair"} THEN "raise_to_p75"
    ELSE IF analysis.offer_vs_market = "good" THEN "modest"
    ELSE "benefits"

CounterOffer(strategy, branch, current_offer, market_data) ==
    CASE branch = "raise_to_p75" ->
            [strategy EXCEPT
                !.counter_offer = IF market_data.percentile_75 # None
                                    THEN market_data.percentile_75
                                    ELSE (current_offer * 115) \div 100,
                !.should_negotiate = TRUE,
                !.leverage_points =
                    << LP("Current offer is below market average by",
                          IntTrunc(market_data.average_salary - current_offer),
                          <<>>) >>]
      [] branch = "modest" ->
            [strategy EXCEPT
                !.counter_offer = (current_offer * 108) \div 100,
                !.should_negotiate = TRUE,
                !.leverage_points = << LP("Requesting slight adjustment", 0, <<>>) >>]
      [] OTHER ->
            [strategy EXCEPT
                !.should_negotiate = FALSE,
                !.counter_offer = current_offer,
                !.alternative_benefits = AlternativeBenefits]

\* Boundaries, but the market-data lines are left out when no raise is asked.
BoundariesBenefitsOnly(strategy, current_offer, market_data, user_target) ==
    [strategy EXCEPT
        !.min_acceptable = (current_offer * 105) \div 100,
        !.ideal_outcome = Or(user_target, strategy.counter_offer),
        !.leverage_points = @ \o
            (IF strategy.should_negotiate
               THEN << LP("Market data from", 0, market_data.sources),
                       LP("Average salary for this role", market_data.average_salary, <<>>) >>
               ELSE <<>>)
            \o << LP("Proven track record in similar positions", 0, <<>>),
                  LP("Immediate availability and no notice period", 0, <<>>) >>]

\* "Set boundaries" and "Add leverage points".
Boundaries(strategy, current_offer, market_data, user_target) ==
    [strategy EXCEPT
        !.min_acceptable = (current_offer * 105) \div 100,
        !.ideal_outcome = Or(user_target, strategy.counter_offer),
        !.leverage_points = @ \o
            << LP("Market data from", 0, market_data.sources),
               LP("Average salary for this role", market_data.average_salary, <<>>),
               LP("Proven track record in similar positions", 0, <<>>),
               LP("Immediate availability and no notice period", 0, <<>>) >>]

\* "Identify risks"
Risks(strategy, analysis, job) ==
    [strategy EXCEPT
        !.risks =
            (IF analysis.negotiation_room = "low"
               THEN <<"Offer already at top of market range">> ELSE <<>>)
            \o (IF job.company_size = "startup"
                  THEN <<"Startup may have limited salary flexibility">> ELSE <<>>),
        !.alternative_benefits =
            IF job.company_size = "startup" THEN Append(@, "Equity compensation") ELSE @]

_generate_counter_offer_strategy(job, current_offer, market_data, analysis, user_target) ==
    IF current_offer = None
      THEN GuidancePoints(Guidance(DefaultStrategy, market_data, user_target))
      ELSE Risks(
               Boundaries(
                   CounterOffer(DefaultStrategy, CounterBranch(analysis),
                                current_offer, market_data),
                   current_offer, market_data, user_target),
               analysis, job)

\* f"{x:,.0f}": the nearest whole euro, ties to even; the result in whole euros.
Format0(c) ==
    IF c % 100 > 50 \/ (c % 100 = 50 /\ (c \div 100) % 2 = 1)
      THEN (c \div 100) + 1 ELSE c \div 100

Take(s, k) == SubSeq(s, 1, IF k < Len(s) THEN k ELSE Len(s))

\* Formatting None with ",.0f" raises TypeError.
ScriptsRaise(strategy) ==
    \/ strategy.min_acceptable = None
    \/ strategy.ideal_outcome = None

_generate_negotiation_scripts(strategy, job) ==
    [email  |-> [title |-> job.title, company |-> job.company,
                 amount |-> Format0(strategy.counter_offer),
                 years |-> Len(strategy.leverage_points)],
     phone  |-> [low |-> Format0(strategy.min_acceptable),
                 amount |-> Format0(strategy.counter_offer),
                 points |-> Take(strategy.leverage_points, 3),
                 benefits |-> Take(strategy.alternative_benefits, 2)],
     counter_offer_letter |->
                [title |-> job.title, company |-> job.company,
                 amount |-> Format0(strategy.counter_offer),
                 low |-> Format0(strategy.min_acceptable),
                 high |-> Format0(strategy.ideal_outcome),
                 points |-> Take(strategy.leverage_points, 4),
                 benefits |-> Take(strategy.alternative_benefits, 3)]]

\* With an offer, the leverage lines subtract from and format the average:
\* a None average raises TypeError.
StrategyRaises(current_offer, market_data) ==
    current_offer # None /\ market_data.average_salary = None

\* The return statement of execute, or the exception that ends it.
ExecuteReturn(job, current_offer, market_data, analysis, strategy) ==
    IF StrategyRaises(current_offer, market_data) \/ ScriptsRaise(strategy)
      THEN [raised |-> TRUE]
      ELSE [raised |-> FALSE,
            market_data |-> market_data,
            analysis |-> analysis,
            strategy |-> strategy,
            scripts |-> _generate_negotiation_scripts(strategy, job),
            recommended_counter_offer |-> strategy.counter_offer,
            negotiation_leverage_points |-> strategy.leverage_points]

ExecuteStrategy(job, current_offer, market_data, analysis, user_target) ==
    ExecuteReturn(job, current_offer, market_data, analysis,
        _generate_counter_offer_strategy(job, current_offer, market_data,
                                         analysis, user_target))

ExecuteAnalysis(job, current_offer, market_data, user_target) ==
    ExecuteStrategy(job, current_offer, market_data,
        _analyze_offer(job, current_offer, market_data, user_target), user_target)

execute(job, current_offer, user_target) ==
    ExecuteAnalysis(job, current_offer, _get_market_data_slovakia(job), user_target)

\* _analyze_offer followed by _generate_counter_offer_strategy on a market
\* distribution handed in by the caller: the two records, or the TypeError.
Strategize(job, current_offer, market_data, user_target) ==
    IF StrategyRaises(current_offer, market_data)
      THEN [raised |-> TRUE]
      ELSE [raised |-> FALSE,
            analysis |-> _analyze_offer(job, current_offer, market_data, user_target),
            strategy |-> _generate_counter_offer_strategy(job, current_offer, market_data,
                            _analyze_offer(job, current_offer, market_data, user_target),
                            user_target)]

-----------------------------------------------------------------------------
(* NegotiationAgent: round simulation *)

Midpoint(initial_offer, your_counter) == (initial_offer + your_counter) \div 2

\* The employer meeting the counter-offer whatever the maximum.
Round2MeetingCounter(initial_offer, your_counter, employer_max) ==
    [round |-> 2,
     employer_offer |-> your_counter,
     your_response |-> "accept",
     analysis |-> [kind |-> "Employer accepted your counter-offer", amount |-> 0]]

\* Round2, but the jump is measured against 15% of the initial offer.
Round2OfInitial(initial_offer, your_counter, employer_max) ==
    IF your_counter <= employer_max
      THEN IF (your_counter - initial_offer) * 100 > initial_offer * 15
             THEN [round |-> 2,
                   employer_offer |-> Midpoint(initial_offer, your_counter),
                   your_response |-> "evaluate",
                   analysis |-> [kind |-> "Employer countered at middle ground",
                                 amount |-> Format0(Midpoint(initial_offer, your_counter))]]
             ELSE [round |-> 2,
                   employer_offer |-> your_counter,
                   your_response |-> "accept",
                   analysis |-> [kind |-> "Employer accepted your counter-offer",
                                 amount |-> 0]]
      ELSE [round |-> 2,
            employer_offer |-> employer_max,
            your_response |-> "evaluate",
            analysis |-> [kind |-> "Employer countered at their maximum",
                          amount |-> Format0(employer_max)]]

\* The round-2 branch: your_counter <= employer_max, then the size of the jump
\* against employer_max * 0.15 (compared exactly).
Round2(initial_offer, your_counter, employer_max) ==
    IF your_counter <= employer_max
      THEN IF (your_counter - initial_offer) * 100 > employer_max * 15
             THEN [round |-> 2,
                   employer_offer |-> Midpoint(initial_offer, your_counter),
                   your_response |-> "evaluate",
                   analysis |-> [kind |-> "Employer countered at middle ground",
                                 amount |-> Format0(Midpoint(initial_offer, your_counter))]]
             ELSE [round |-> 2,
                   employer_offer |-> your_counter,
                   your_response |-> "accept",
                   analysis |-> [kind |-> "Employer accepted your counter-offer",
                                 amount |-> 0]]
      ELSE [round |-> 2,
            employer_offer |-> employer_max,
            your_response |-> "evaluate",
            analysis |-> [kind |-> "Employer countered at their maximum",
                          amount |-> Format0(employer_max)]]

\* simulate_negotiation, but an accepted counter ends the exchange in round 1
\* and the employer's answer is reported there.
simulate_negotiation_one_round(initial_offer, your_counter, employer_max) ==
    IF Round2(initial_offer, your_counter, employer_max).your_response = "accept"
      THEN << [round |-> 1,
               employer_offer |-> your_counter,
               your_response |-> "accept",
               your_counter |-> your_counter,
               analysis |-> [kind |-> "Employer accepted your counter-offer", amount |-> 0]] >>
      ELSE << [round |-> 1,
               employer_offer |-> initial_offer,
               your_response |-> "counter",
               your_counter |-> your_counter,
               analysis |-> [kind |-> "Initial counter-offer submitted", amount |-> 0]],
              Round2(initial_offer, your_counter, employer_max) >>

simulate_negotiation(initial_offer, your_counter, employer_max) ==
    << [round |-> 1,
        employer_offer |-> initial_offer,
        your_response |-> "counter",
        your_counter |-> your_counter,
        analysis |-> [kind |-> "Initial counter-offer submitted", amount |-> 0]],
       Round2(initial_offer, your_counter, employer_max) >>

-----------------------------------------------------------------------------
(* NegotiationAgent: the calls *)

MaxOfferK == 120
MinSimK == 25
MaxSimK == 45

NegTitles ==
    { <<"Python", "Developer">>, <<"Senior", "Python", "Developer">>,
      <<"Backend", "Developer">>, <<"fullstack", "developer">>,
      <<"Frontend", "Developer">>, <<"devops", "engineer">>,
      <<"Senior", "java", "Developer">>, <<"Developer">>, <<>> }

NegLocations ==
    { <<"Bratislava">>, <<"Kos*ice">>, <<"kosice">>, <<"Remote">>,
      <<"eu", "remote">>, <<"nitra">>, <<"vienna">> }

NegJobs ==
    { [title |-> t, location |-> l, company |-> <<"Tech", "Corp">>,
       company_size |-> z, salary |-> <<3000, 3500>>] :
        t \in NegTitles, l \in NegLocations, z \in {"startup", "unknown"} }

\* Offers in steps of 50 EUR from 1500 EUR; None is "no offer yet".
Offers == {None} \cup { Eur(50 * k) : k \in 30..MaxOfferK }

Targets == {None, Eur(4000), Eur(6000)}

SimAmounts == { Eur(100 * k) : k \in MinSimK..MaxSimK }

ExecuteInputs ==
    { [job |-> job, current_offer |-> current_offer, user_target |-> user_target] :
        job \in NegJobs, current_offer \in Offers, user_target \in Targets }

\* Market distributions handed to the analysis: nothing known, or what the
\* sources give for the job.
StrategyInputs ==
    { [job |-> job, current_offer |-> current_offer, user_target |-> user_target,
       market_data |-> market_data] :
        job \in { j \in NegJobs : j.location = <<"Bratislava">> },
        current_offer \in Offers, user_target \in Targets,
        market_data \in {EmptyMarketData} }
    \cup
    { [job |-> x.job, current_offer |-> x.current_offer, user_target |-> x.user_target,
       market_data |-> _get_market_data_slovakia(x.job)] :
        x \in { y \in ExecuteInputs : y.job.location = <<"Remote">> } }

SimulateInputs ==
    { [initial_offer |-> i, your_counter |-> c, employer_max |-> m] :
        i \in SimAmounts, c \in SimAmounts, m \in SimAmounts }

NegInit ==
    /\ ParseIdle /\ RunIdle /\ RuleIdle
    /\ neg_op \in {"execute", "simulate", "strategy", "market"}
    /\ neg_in \in CASE neg_op = "execute" -> ExecuteInputs
                   [] neg_op = "simulate" -> SimulateInputs
                   [] neg_op = "strategy" -> StrategyInputs
                   [] neg_op = "market" -> { [job |-> job] : job \in NegJobs }
    /\ neg_pc = "call"
    /\ neg_out = <<>>

Execute ==
    /\ neg_op = "execute" /\ neg_pc = "call"
    /\ neg_out' = execute(neg_in.job, neg_in.current_offer, neg_in.user_target)
    /\ neg_pc' = "return"
    /\ UNCHANGED <<neg_op, neg_in, parseVars, runVars, ruleVars>>

Simulate ==
    /\ neg_op = "simulate" /\ neg_pc = "call"
    /\ neg_out' = simulate_negotiation(neg_in.initial_offer, neg_in.your_counter,
                                       neg_in.employer_max)
    /\ neg_pc' = "return"
    /\ UNCHANGED <<neg_op, neg_in, parseVars, runVars, ruleVars>>

\* _analyze_offer and _generate_counter_offer_strategy, called directly.
AnalyzeAndStrategize ==
    /\ neg_op = "strategy" /\ neg_pc = "call"
    /\ neg_out' = Strategize(neg_in.job, neg_in.current_offer, neg_in.market_data,
                             neg_in.user_target)
    /\ neg_pc' = "return"
    /\ UNCHANGED <<neg_op, neg_in, parseVars, runVars, ruleVars>>

\* _get_market_data_slovakia, called directly: first the sources are merged
\* into market_data ...
FuseSources ==
    /\ neg_op = "market" /\ neg_pc = "call"
    /\ neg_out' = FusedMarketData(neg_in.job)
    /\ neg_pc' = "fused"
    /\ UNCHANGED <<neg_op, neg_in, parseVars, runVars, ruleVars>>

\* ... then _apply_slovakia_market_factors adjusts it, and it is returned.
GetMarketData ==
    /\ neg_op = "market" /\ neg_pc = "fused"
    /\ neg_out' = _apply_slovakia_market_factors(neg_out, neg_in.job.location)
    /\ neg_pc' = "return"
    /\ UNCHANGED <<neg_op, neg_in, parseVars, runVars, ruleVars>>

NegNext == Execute \/ Simulate \/ AnalyzeAndStrategize \/ FuseSources \/ GetMarketData

SpecNeg == NegInit /\ [][NegNext]_vars

-----------------------------------------------------------------------------
(* NegotiationAgent: properties *)

Simulated == neg_op = "simulate" /\ neg_pc = "return"

\* execute has returned a result (it did not raise).
Executed == neg_op = "execute" /\ neg_pc = "return" /\ ~neg_out.raised

ExecutedWithOffer == Executed /\ neg_in.current_offer # None

\* C5: simulate_negotiation returns exactly two rounds, numbered 1 and 2 in
\* that order; round 1 carries the initial offer as the employer's offer and
\* the response "counter" at your_counter.  (The result is a function of the
\* three arguments: the method reads no field of the agent.)
C5_TwoRounds ==
    Simulated =>
        /\ Len(neg_out) = 2
        /\ neg_out[1].round = 1
        /\ neg_out[2].round = 2
        /\ neg_out[1].employer_offer = neg_in.initial_offer
        /\ neg_out[1].your_response = "counter"
        /\ neg_out[1].your_counter = neg_in.your_counter

\* A simulation whose counter the employer accepts outright.
C5_Witness ==
    /\ Simulated
    /\ neg_in.your_counter > neg_in.initial_offer
    /\ neg_out[Len(neg_out)].your_response = "accept"

\* C6: round 2 is employer_max / "evaluate" when your_counter > employer_max;
\* else the midpoint of initial_offer and your_counter / "evaluate" when
\* your_counter - initial_offer exceeds 15% of employer_max; else your_counter
\* / "accept".  Scenarios E (3000, 3200, 3500) and F (3000, 4000, 3500).
C6_Round2Branches ==
    Simulated =>
        /\ IF neg_in.your_counter > neg_in.employer_max
             THEN /\ neg_out[2].employer_offer = neg_in.employer_max
                  /\ neg_out[2].your_response = "evaluate"
           ELSE IF (neg_in.your_counter - neg_in.initial_offer) * 100
                       > 15 * neg_in.employer_max
             THEN /\ 2 * neg_out[2].employer_offer
                         = neg_in.initial_offer + neg_in.your_counter
                  /\ neg_out[2].your_response = "evaluate"
           ELSE /\ neg_out[2].employer_offer = neg_in.your_counter
                /\ neg_out[2].your_response = "accept"
        /\ (neg_in = [initial_offer |-> Eur(3000), your_counter |-> Eur(3200),
                      employer_max |-> Eur(3500)])
              => neg_out[2].your_response = "accept"
        /\ (neg_in = [initial_offer |-> Eur(3000), your_counter |-> Eur(4000),
                      employer_max |-> Eur(3500)])
              => /\ neg_out[2].employer_offer = Eur(3500)
                 /\ neg_out[2].your_response = "evaluate"

\* The midpoint branch: an affordable counter that the employer does not accept.
C6_Witness ==
    /\ Simulated
    /\ neg_in.your_counter <= neg_in.employer_max
    /\ neg_out[2].your_response = "evaluate"
    /\ neg_out[2].employer_offer < neg_in.your_counter

\* C7: with an offer whose market position (deviation from the average) is
\* below_market or fair, should_negotiate is true and the counter-offer is p75
\* when the market has one, else current_offer * 1.15.
C7_PositionKeyedCounter ==
    (ExecutedWithOffer /\ neg_out.analysis.market_position \in {"below_market", "fair"})
        => /\ neg_out.strategy.should_negotiate
           /\ neg_out.strategy.counter_offer =
                 IF neg_out.market_data.percentile_75 # None
                   THEN neg_out.market_data.percentile_75
                   ELSE (neg_in.current_offer * 115) \div 100

\* C8: with an offer, should_negotiate is false exactly when the market
\* position is excellent, and then the benefits list is non-empty and no raise
\* is asked.
C8_NoRaiseIffExcellent ==
    ExecutedWithOffer =>
        /\ (~neg_out.strategy.should_negotiate)
              <=> (neg_out.analysis.market_position = "excellent")
        /\ (~neg_out.strategy.should_negotiate)
              => /\ neg_out.strategy.alternative_benefits # <<>>
                 /\ neg_out.strategy.counter_offer = neg_in.current_offer

\* The offer is below the market: under the 25th percentile, or more than 10%
\* under the average.
BelowMarket ==
    \/ /\ neg_out.market_data.percentile_25 # None
       /\ neg_in.current_offer < neg_out.market_data.percentile_25
    \/ neg_out.analysis.market_position = "below_market"

\* C9: the recommended counter-offer is never under a positive current offer,
\* and an offer below the market gets should_negotiate and a counter-offer
\* strictly above it.
C9_CounterNotBelowOffer ==
    ExecutedWithOffer =>
        /\ neg_out.recommended_counter_offer >= neg_in.current_offer
        /\ BelowMarket => /\ neg_out.strategy.should_negotiate
                          /\ neg_out.recommended_counter_offer > neg_in.current_offer

HasSourcesPoint ==
    \E i \in 1..Len(neg_out.strategy.leverage_points) :
        /\ neg_out.strategy.leverage_points[i].kind = "Market data from"
        /\ neg_out.strategy.leverage_points[i].names = neg_out.market_data.sources

HasAveragePoint ==
    \E i \in 1..Len(neg_out.strategy.leverage_points) :
        /\ neg_out.strategy.leverage_points[i].kind = "Average salary for this role"
        /\ neg_out.strategy.leverage_points[i].amount = neg_out.market_data.average_salary

\* C10 as stated: every strategy execute returns, with or without an offer,
\* has a leverage point naming the sources and one stating the average.
C10_AlwaysSourcesAndAverage ==
    Executed => (HasSourcesPoint /\ HasAveragePoint)

\* C10 as amended: every strategy returned for a current offer has a leverage
\* point naming the (non-empty) contributing sources and one stating the
\* average; a strategy returned without an offer has neither.
C10_SourcesAndAverageWithOffer ==
    Executed =>
        IF neg_in.current_offer # None
          THEN /\ HasSourcesPoint
               /\ HasAveragePoint
               /\ neg_out.market_data.sources # <<>>
               /\ neg_out.market_data.average_salary # None
          ELSE ~HasSourcesPoint /\ ~HasAveragePoint

\* An excellent offer, fused from three sources, with its leverage points.
C10_Witness ==
    /\ ExecutedWithOffer
    /\ ~neg_out.strategy.should_negotiate
    /\ Len(neg_out.market_data.sources) = 3
    /\ HasSourcesPoint

\* The strategy functions have returned or raised on an all-null market.
StrategizedOnNothing ==
    neg_op = "strategy" /\ neg_pc = "return" /\ neg_in.market_data = EmptyMarketData

\* C11: on a market distribution with every field null and no sources, offer
\* analysis and strategy generation complete without error for every
\* combination of current_offer and user_target present or absent, and the
\* strategy's figures are fixed fallbacks or derived from the offer.
C11_NullMarketHandled ==
    StrategizedOnNothing =>
        /\ ~neg_out.raised
        /\ neg_out.strategy.counter_offer # None
        /\ neg_out.strategy.min_acceptable # None

\* _get_market_data_slovakia has returned.
GotMarketData == neg_op = "market" /\ neg_pc = "return"

SourceNames == {"Glassdoor SK", "Profesia SK", "Platy.sk", "Job Posting"}

\* The source of that name has a value for the job.
Supplied(name, job) ==
    CASE name = "Glassdoor SK" ->
            _scrape_glassdoor_slovakia(Lower(job.title), Lower(job.location)).found
      [] name = "Profesia SK" -> _scrape_profesia_salaries(Lower(job.title), job.location).found
      [] name = "Platy.sk" -> _scrape_platy_sk(Lower(job.title)).found
      [] name = "Job Posting" -> _extract_salary_from_job(job).found
      [] OTHER -> FALSE

\* C12: the market data of every job has a non-empty sources list whenever
\* its average is non-null, and every name in it is one of the four source
\* names, listed once, whose source supplied a value for the job.
C12_SourcesNamed ==
    GotMarketData =>
        /\ neg_out.average_salary # None => neg_out.sources # <<>>
        /\ \A k \in 1..Len(neg_out.sources) :
              /\ neg_out.sources[k] \in SourceNames
              /\ Supplied(neg_out.sources[k], neg_in.job)
              /\ \A m \in 1..Len(neg_out.sources) : m # k => neg_out.sources[m] # neg_out.sources[k]

\* A title only Profesia knows: one source, and it is named.
C12_Witness ==
    /\ GotMarketData
    /\ neg_out.sources = <<"Profesia SK">>
    /\ neg_out.average_salary # None

AllPresent ==
    /\ neg_out.min_salary # None /\ neg_out.percentile_25 # None
    /\ neg_out.percentile_50 # None /\ neg_out.percentile_75 # None
    /\ neg_out.max_salary # None

\* C13: whenever min, the three percentiles and max are all present in the
\* returned market data, min <= p25 <= p50 <= p75 <= max, the location
\* multiplier having been applied to min and max but not to the percentiles.
C13_PercentilesOrdered ==
    (GotMarketData /\ AllPresent) =>
        /\ neg_out.min_salary <= neg_out.percentile_25
        /\ neg_out.percentile_25 <= neg_out.percentile_50
        /\ neg_out.percentile_50 <= neg_out.percentile_75
        /\ neg_out.percentile_75 <= neg_out.max_salary

\* A remote posting: the multiplier 1.1 has moved min and max off the row.
C13_Witness ==
    /\ GotMarketData /\ AllPresent
    /\ Multiplier(neg_in.job.location) = 110
    /\ neg_out.min_salary >
          _scrape_glassdoor_slovakia(Lower(neg_in.job.title),
                                     Lower(neg_in.job.location)).min_salary

\* The same job, located in Bratislava.
InBratislava(job) == [job EXCEPT !.location = <<"Bratislava">>]

\* C14: for every title, the fused average execute returns for location
\* 'Kosice' (written with its diacritic) is strictly below the one for
\* 'Bratislava'.
C14_KosiceBelowBratislava ==
    (Executed /\ neg_in.job.location = <<"Kos*ice">>) =>
        neg_out.market_data.average_salary
            < _get_market_data_slovakia(InBratislava(neg_in.job)).average_salary

\* Python Developer in Kosice, with an offer, as in the test.
C14_Witness ==
    /\ Executed
    /\ neg_in.job.location = <<"Kos*ice">>
    /\ neg_in.job.title = <<"Python", "Developer">>
    /\ neg_in.current_offer = Eur(3500)

\* C19: for every execute call with a current offer, the email script contains
\* the current offer amount and the job's company name.  The only amount the
\* email states is the counter-offer, formatted to whole euros.
C19_EmailQuotesOffer ==
    ExecutedWithOffer =>
        /\ neg_out.scripts.email.amount * 100 = neg_in.current_offer
        /\ neg_out.scripts.email.company = neg_in.job.company

\* The sources have been merged; the location adjustment is still to come.
Fused == neg_op = "market" /\ neg_pc = "fused"

\* What each source has for the job.
FromGlassdoor == _scrape_glassdoor_slovakia(Lower(neg_in.job.title), Lower(neg_in.job.location))

FromProfesia == _scrape_profesia_salaries(Lower(neg_in.job.title), neg_in.job.location)

FromPlaty == _scrape_platy_sk(Lower(neg_in.job.title))

\* The average of C21 for the sources that contribute, g, p, l being the
\* averages of Glassdoor, Profesia and Platy: amounts are whole euros held in
\* hundredths, so the halves and quarters are exact.
OrderedAverage(g, p, l) ==
    CASE g.found /\ p.found /\ l.found ->
            ((g.average_salary + p.average_salary) \div 2 + l.average_salary) \div 2
      [] g.found /\ p.found /\ ~l.found -> (g.average_salary + p.average_salary) \div 2
      [] g.found /\ ~p.found /\ l.found -> (g.average_salary + l.average_salary) \div 2
      [] ~g.found /\ p.found /\ l.found -> (p.average_salary + l.average_salary) \div 2
      [] g.found /\ ~p.found /\ ~l.found -> g.average_salary
      [] ~g.found /\ p.found /\ ~l.found -> p.average_salary
      [] ~g.found /\ ~p.found /\ l.found -> l.average_salary
      [] OTHER -> None

\* C21: the fused average is built in the order Glassdoor, Profesia, Platy,
\* the first contributing source setting it and each later one replacing it
\* with (existing + new) / 2, so three sources give ((g + p)/2 + l)/2; the
\* percentiles are Glassdoor's alone, or unset.
C21_AverageInSourceOrder ==
    Fused =>
        /\ neg_out.average_salary = OrderedAverage(FromGlassdoor, FromProfesia, FromPlaty)
        /\ neg_out.percentile_25 = FromGlassdoor.percentile_25
        /\ neg_out.percentile_50 = FromGlassdoor.percentile_50
        /\ neg_out.percentile_75 = FromGlassdoor.percentile_75

\* Python Developer in Bratislava: Glassdoor 3200, Profesia 3100, Platy 3000
\* give ((3200 + 3100)/2 + 3000)/2 = 3075, not their mean 3100.
C21_Witness ==
    /\ Fused
    /\ neg_out.sources = <<"Glassdoor SK", "Profesia SK", "Platy.sk">>
    /\ neg_out.average_salary = Eur(3075)
    /\ neg_out.average_salary # (FromGlassdoor.average_salary + FromProfesia.average_salary
                                   + FromPlaty.average_salary) \div 3

\* The step of _apply_slovakia_market_factors.
Adjusting == neg_op = "market" /\ neg_pc = "fused" /\ neg_pc' = "return"

\* The multipliers of the table, and the default.
Percents == { LocationPercent[k] : k \in DOMAIN LocationPercent } \cup {100}

\* The adjustment leaves the percentiles, data_points and sources as they are.
RestUnchanged ==
    /\ neg_out'.percentile_25 = neg_out.percentile_25
    /\ neg_out'.percentile_50 = neg_out.percentile_50
    /\ neg_out'.percentile_75 = neg_out.percentile_75
    /\ neg_out'.data_points = neg_out.data_points
    /\ neg_out'.sources = neg_out.sources

\* C22 as stated: the adjustment multiplies average, min and max by the
\* location multiplier and leaves everything else unchanged.
C22_MultipliedExactly ==
    [][Adjusting =>
          /\ RestUnchanged
          /\ \E pct \in Percents :
                /\ 100 * neg_out'.average_salary = pct * neg_out.average_salary
                /\ 100 * neg_out'.min_salary = pct * neg_out.min_salary
                /\ 100 * neg_out'.max_salary = pct * neg_out.max_salary]_vars

\* The amount times the multiplier, cut down to whole euros as int() does;
\* an unset amount stays unset.
WholeEuros(amount, pct) == (((amount * pct) \div 100) \div 100) * 100

\* C22: the adjustment replaces average, min and max, where set, by the
\* product with the location multiplier cut down to a whole number, and
\* leaves percentiles, data_points and sources unchanged; an unset percentile
\* stays unset.
C22_MultipliedAndTruncated ==
    [][Adjusting =>
          /\ RestUnchanged
          /\ \E pct \in Percents :
                /\ neg_out'.average_salary = WholeEuros(neg_out.average_salary, pct)
                /\ neg_out'.min_salary = WholeEuros(neg_out.min_salary, pct)
                /\ neg_out'.max_salary = WholeEuros(neg_out.max_salary, pct)]_vars

\* Python Developer in Kosice: 3050 * 0.85 = 2592.5 is returned as 2592, and
\* the percentiles are as unset as before.
C22_Witness ==
    /\ GotMarketData
    /\ neg_in.job.title = <<"Python", "Developer">>
    /\ neg_in.job.location = <<"Kos*ice">>
    /\ FusedMarketData(neg_in.job).average_salary = Eur(3050)
    /\ neg_out.average_salary = Eur(2592)
    /\ neg_out.percentile_50 = None

\* C25: in every strategy returned by _generate_counter_offer_strategy,
\* whichever branch produced it, min_acceptable <= counter_offer.
C25_MinNotAboveCounter ==
    /\ Executed => neg_out.strategy.min_acceptable <= neg_out.strategy.counter_offer
    /\ (neg_op = "strategy" /\ neg_pc = "return" /\ ~neg_out.raised)
          => neg_out.strategy.min_acceptable <= neg_out.strategy.counter_offer

\* The names in the sources of a market record.
Named(market_data) == { market_data.sources[k] : k \in DOMAIN market_data.sources }

\* The record has an average, names Profesia and not the job posting.
ProfesiaNotPosting(market_data) ==
    /\ market_data.average_salary # None
    /\ "Profesia SK" \in Named(market_data)
    /\ "Job Posting" \notin Named(market_data)

\* C27: the Profesia lookup has an estimate for every title, so for every job
\* the fused average is non-null, 'Profesia SK' is among the sources and the
\* job-posting fallback is never used, before and after the location
\* adjustment and in what execute returns.
C27_ProfesiaAlwaysContributes ==
    /\ neg_op \in {"market", "execute"} => FromProfesia.found
    /\ (Fused \/ GotMarketData) => ProfesiaNotPosting(neg_out)
    /\ Executed => ProfesiaNotPosting(neg_out.market_data)

\* A job without a title, in a city no table knows, stating its own salary
\* range: the base estimate 2800 is the average and the posting's range is
\* not used.
C27_Witness ==
    /\ GotMarketData
    /\ neg_in.job.title = <<>>
    /\ neg_in.job.location = <<"vienna">>
    /\ _extract_salary_from_job(neg_in.job).found
    /\ neg_out.average_salary = Eur(ProfesiaDefault)
    /\ neg_out.min_salary = None

\* The keys of the table contained in the lower-cased location.
KeysIn(location) ==
    { k \in DOMAIN LocationKeys : Contains(Lower(location), LocationKeys[k]) }

\* The multiplier of the most specific key contained in the location: the
\* one every other contained key is part of; 1.0 when none is contained.
MostSpecificPercent(location) ==
    IF KeysIn(location) = {} THEN 100
    ELSE LocationPercent[CHOOSE k \in KeysIn(location) :
            \A m \in KeysIn(location) : Contains(LocationKeys[k], LocationKeys[m])]

\* C28: the multiplier applied is that of the table key contained in the
\* lower-cased location, the most specific one when several are contained:
\* 'eu remote' scales by 1.3, 'remote' alone by 1.1, no key by 1.0.
C28_MostSpecificKeyWins ==
    GotMarketData =>
        neg_out.average_salary =
            WholeEuros(FusedMarketData(neg_in.job).average_salary,
                       MostSpecificPercent(neg_in.job.location))

\* C29: for all inputs of simulate_negotiation the employer's round-2 offer
\* never exceeds employer_max, and a round has the response "accept" only
\* when it is round 2 and the employer's offer there equals your_counter.
C29_OfferWithinMaximum ==
    Simulated =>
        /\ neg_out[2].employer_offer <= neg_in.employer_max
        /\ \A k \in DOMAIN neg_out :
              neg_out[k].your_response = "accept"
                  => k = 2 /\ neg_out[k].employer_offer = neg_in.your_counter

\* A counter above the maximum, the initial offer above it too: round 2 is
\* the maximum, to be evaluated.
C29_Witness ==
    /\ Simulated
    /\ neg_in.your_counter > neg_in.employer_max
    /\ neg_in.initial_offer > neg_in.employer_max
    /\ neg_out[2].employer_offer = neg_in.employer_max
    /\ neg_out[2].your_response = "evaluate"

\* The step on which _match_jobs returns.
MatchJobsReturns == run_pc = "match" /\ run_pc' # "match"

\* The matches of the step that the truncation left out.
DroppedOnReturn == Range(matched_jobs) \ Range(matched_jobs')

\* C30: after JobAgentOrchestrator._match_jobs at most max_jobs_per_day jobs
\* remain, all of them jobs the matcher returned; when the matcher returned
\* more than that, every dropped job has a match_score no higher than that
\* of every kept job, and the kept jobs are in descending score order.
C30_HighestScoringKept ==
    [][MatchJobsReturns =>
          /\ Len(matched_jobs') <= cfg.max_jobs
          /\ Range(matched_jobs') \subseteq Range(matched_jobs)
          /\ Len(matched_jobs) > cfg.max_jobs =>
                /\ Len(matched_jobs') = cfg.max_jobs
                /\ \A d \in DroppedOnReturn : \A k \in Range(matched_jobs') :
                      fields[d].match_score <= fields[k].match_score
                /\ \A a, b \in 1..Len(matched_jobs') :
                      a < b => fields[matched_jobs'[a]].match_score
                                   >= fields[matched_jobs'[b]].match_score]_vars

\* The truncation has put a later, strictly higher match first and has
\* dropped a match that scored no higher than the last one kept.
C30_Witness ==
    /\ run_pc \in {"critique", "done"}
    /\ Len(matched_jobs) = cfg.max_jobs
    /\ Len(matched_jobs) >= 2
    /\ matched_jobs[1] > matched_jobs[2]
    /\ fields[matched_jobs[1]].match_score > fields[matched_jobs[2]].match_score
    /\ \E d \in Range(jobs) \ Range(matched_jobs) :
          /\ fields[d].has_match
          /\ fields[d].match_score <= fields[matched_jobs[2]].match_score

=============================================================================
